---- MODULE Spec2Model ----
(***************************************************************************)
(* Model of the SGML2SQL extraction and classification code:               *)
(*   src/21_sgml2rawdata.py            text selection, label normalization,*)
(*                                     partner/group extraction, generic   *)
(*                                     serializer, interaction flattening  *)
(*   src/31_rawdata2women.py           section locator                     *)
(*   src/32_label_women_risk.py        rule classification, flags          *)
(*                                                                         *)
(* Strings are sequences of characters; a character is a one-entry TLA+    *)
(* string.  The module is ASCII only, so the Japanese characters the code  *)
(* tests for are written with stand-ins:                                   *)
(*   TOU     the character U+7B49            ("etc.", first noise token)   *)
(*   NA, DO  the characters U+306A, U+3069   (together the second noise    *)
(*                                            token, "nado")               *)
(*   COMMA   one character of the class [U+3001 U+FF0C , ]                 *)
(*   SP      the space; NL, CR, TAB, ZSP (U+3000) are the other whitespace *)
(* Python's None is the value None below, which is no string of the model. *)
(***************************************************************************)
EXTENDS Integers, Sequences, FiniteSets, TLC

VARIABLES
    pc,       \* "call": the operation has its argument; else the name of the operation that returned
    op,       \* the operation that is called
    arg,      \* the argument the operation is called with
    result,   \* the value the operation returned (None before the call)
    tables,   \* the module-level rule tables and pattern dictionaries of 32_label_women_risk
    memo,     \* history: what each (operation, argument) returned when it was first called
    calls     \* history: how many calls were made

vars == <<pc, op, arg, result, tables, memo, calls>>

None == <<"None">>

\* An exception that leaves the function, where the function returns a tuple
\* and where it returns a mapping.
Raised        == <<"raised">>
RaisedMapping == [raised |-> TRUE]

SP    == " "
COMMA == ","
TOU   == "TOU"
NA    == "na"
DO    == "do"

NL  == "NL"
CR  == "CR"
TAB == "TAB"
ZSP == "ZSP"

\* what str.strip() and \s accept
WS      == {SP, NL, CR, TAB, ZSP}
PUNCTWS == {COMMA} \cup WS

\* Python truthiness of an Optional[str]: neither None nor "".
Truthy(s) == s # None /\ s # <<>>

\* The history of first results: a call that was made before leaves it alone.
Remember(m, call, value) == IF call \in DOMAIN m THEN m ELSE m @@ (call :> value)

----------------------------------------------------------------------------
(* str.strip(), and re.sub of a leading / trailing run of a character class *)

RECURSIVE DropLeading(_, _)
DropLeading(s, cls) ==
    IF s # <<>> /\ Head(s) \in cls THEN DropLeading(Tail(s), cls) ELSE s

RECURSIVE DropTrailing(_, _)
DropTrailing(s, cls) ==
    IF s # <<>> /\ s[Len(s)] \in cls
    THEN DropTrailing(SubSeq(s, 1, Len(s) - 1), cls)
    ELSE s

strip(s) == DropTrailing(DropLeading(s, WS), WS)

EndsWith(s, t) ==
    Len(s) >= Len(t) /\ SubSeq(s, Len(s) - Len(t) + 1, Len(s)) = t

StartsWith(s, t) ==
    Len(s) >= Len(t) /\ SubSeq(s, 1, Len(t)) = t

NOISE_TOU  == <<TOU>>
NOISE_NADO == <<NA, DO>>

\* re.sub(r'(TOU|NADO)$', '', s): at most one match can end at the end of s.
SubTrailingNoise(s) ==
    IF EndsWith(s, NOISE_TOU) THEN SubSeq(s, 1, Len(s) - 1)
    ELSE IF EndsWith(s, NOISE_NADO) THEN SubSeq(s, 1, Len(s) - 2)
    ELSE s

\* re.sub(r'^(TOU|NADO)', '', s): at most one match can start at the start of s.
SubLeadingNoise(s) ==
    IF StartsWith(s, NOISE_TOU) THEN SubSeq(s, 2, Len(s))
    ELSE IF StartsWith(s, NOISE_NADO) THEN SubSeq(s, 3, Len(s))
    ELSE s

\* A plausible slip: the leading noise token is not removed.
normalize_partner_label_noLead(s) ==
    IF ~Truthy(s) THEN None
    ELSE LET s3 == DropTrailing(DropLeading(strip(s), PUNCTWS), PUNCTWS)
         IN  IF s3 = <<>> THEN None
             ELSE IF s3 \in {NOISE_TOU, NOISE_NADO} THEN None
             ELSE LET s4 == strip(SubTrailingNoise(s3))
                  IN  IF s4 = <<>> THEN None ELSE s4

normalize_partner_label(s) ==
    IF ~Truthy(s) THEN None
    ELSE LET s1 == strip(s)
             s2 == DropLeading(s1, PUNCTWS)
             s3 == DropTrailing(s2, PUNCTWS)
         IN  IF s3 = <<>> THEN None
             ELSE IF s3 \in {NOISE_TOU, NOISE_NADO} THEN None
             ELSE LET s4 == strip(SubTrailingNoise(s3))
                      s5 == strip(SubLeadingNoise(s4))
                  IN  IF s5 = <<>> THEN None ELSE s5

----------------------------------------------------------------------------
(* 32_label_women_risk: the rule tables, the evidence patterns and the     *)
(* functions that apply them.                                              *)
(*                                                                         *)
(* A text of this part is a sequence of words: each word is one of the     *)
(* literals the patterns are written with (named in romaji), a whitespace  *)
(* character (SP, NL, CR, TAB, ZSP = U+3000), a digit, or the filler "x".  *)
(* Words that share characters with a shorter literal are split so that    *)
(* the shorter literal is a word of its own (U+4EBA U+5DE5 U+4E73 is       *)
(* HITO_K KOU NYUU, U+809D U+969C U+5BB3 is KAN SHOUGAI, U+65AD U+4E73 is  *)
(* DAN NYUU).                                                              *)
(*                                                                         *)
(* A pattern is a sequence of elements:                                    *)
(*   One(S)      one word of the set S                                     *)
(*   Alt(alts)   ( a | b | ... ), alts a tuple of patterns                 *)
(*   Maybe(p)    ( p )?                                                    *)
(*   Star(S)     [S]*                                                      *)
(*   DotStar     .*  under re.DOTALL                                       *)
(*   NotNext(p)  (?! p )                                                   *)

One(S)     == [kind |-> "one",   set |-> S,  alts |-> <<>>]
Alt(alts)  == [kind |-> "any",   set |-> {}, alts |-> alts]
Maybe(p)   == [kind |-> "maybe", set |-> {}, alts |-> <<p>>]
Star(S)    == [kind |-> "star",  set |-> S,  alts |-> <<>>]
DotStar    == [kind |-> "dot*",  set |-> {}, alts |-> <<>>]
NotNext(p) == [kind |-> "not",   set |-> {}, alts |-> <<p>>]
W(w)       == One({w})

\* Does the pattern p match a stretch of t that starts at position i?
RECURSIVE MatchesAt(_, _, _)
MatchesAt(p, t, i) ==
    IF p = <<>> THEN TRUE
    ELSE LET e    == Head(p)
             rest == Tail(p)
         IN  CASE e.kind = "one"   ->
                    i <= Len(t) /\ t[i] \in e.set /\ MatchesAt(rest, t, i + 1)
               [] e.kind = "any"   ->
                    \E k \in 1..Len(e.alts) : MatchesAt(e.alts[k] \o rest, t, i)
               [] e.kind = "maybe" ->
                    MatchesAt(e.alts[1] \o rest, t, i) \/ MatchesAt(rest, t, i)
               [] e.kind = "star"  ->
                    \/ MatchesAt(rest, t, i)
                    \/ i <= Len(t) /\ t[i] \in e.set /\ MatchesAt(p, t, i + 1)
               [] e.kind = "dot*"  ->
                    \/ MatchesAt(rest, t, i)
                    \/ i <= Len(t) /\ MatchesAt(p, t, i + 1)
               [] e.kind = "not"   ->
                    ~MatchesAt(e.alts[1], t, i) /\ MatchesAt(rest, t, i)

\* bool(rx.search(t))
search(rx, t) == \E i \in 1..(Len(t) + 1) : MatchesAt(rx, t, i)

GIVE     == {"TOUYO", "SHIYOU"}
DESIRED  == <<W("KOTO"), W("ga"), W("NOZOMASHII")>>

PREG_RULES_RAW == <<
    [score |-> 3, tag |-> "contraindicated", rx |-> <<Alt(<<
        <<W("KINKI")>>,
        <<W("TOUYO"), W("SHITEHANARANAI")>>,
        <<W("SHIYOU"), W("SHITEHANARANAI")>>,
        <<W("TOUYO"), W("SHINAI"), W("KOTO"), NotNext(<<W("ga"), W("NOZOMASHII")>>)>>,
        <<W("SHIYOU"), W("SHINAI"), W("KOTO"), NotNext(<<W("ga"), W("NOZOMASHII")>>)>> >>)>>],
    [score |-> 2, tag |-> "not_recommended", rx |-> <<Alt(<<
        <<W("TOUYO"), W("SHINAI")>> \o DESIRED,
        <<W("SHIYOU"), W("SHINAI")>> \o DESIRED,
        <<W("GENSOKU"), DotStar, One(GIVE), W("SHINAI")>>,
        <<One(GIVE), W("ha"), W("SUISHOUSARENAI")>>,
        <<One(GIVE), W("wo"), W("SAKERU")>> \o DESIRED,
        <<One(GIVE), W("wo"), W("KAIHISURU")>> \o DESIRED,
        <<W("KANOUNAKAGIRI"), One(GIVE), W("wo"), W("SAKERU")>> >>)>>],
    [score |-> 1, tag |-> "benefit_over_risk_or_caution", rx |-> <<Alt(<<
        <<Maybe(<<W("CHIRYOUJOU"), W("no")>>),
          One({"YUUEKISEI", "BENEFIT", "RIEKI", "RITEN"}), DotStar,
          One({"KIKENSEI", "RISK"}), DotStar,
          One({"UWAMAWA", "RYOUGA"}), One({"ru", "re"})>>,
        <<W("HITSUYOU"), Maybe(<<One({"na", "JI"})>>), W("BAAI"), W("ni"),
          One({"KAGIRI", "NOMI"}), DotStar, One(GIVE)>>,
        <<W("YAMUWOENAI"), W("BAAI"),
          Alt(<< <<W("ni"), W("KAGIRI")>>, <<W("NOMI")>> >>), DotStar, One(GIVE)>>,
        <<W("HITSUYOU"), W("SAISHOUGEN"),
          Maybe(<<Alt(<< <<W("no"), W("YOURYOU")>>, <<W("no"), W("HANI")>> >>)>>),
          Maybe(<<W("de"), W("no")>>), One(GIVE)>>,
        <<W("SHINCHOU"), W("ni"), W("TOUYO")>> >>)>>] >>

\* re.compile keeps score, pattern and tag; the flags are part of how
\* MatchesAt reads a pattern.
PREG_RULES == PREG_RULES_RAW

STOP_LACTATION == Alt(<<
    <<W("JU"), W("NYUU"), DotStar, W("CHUUSHI")>>,
    <<W("DAN"), W("NYUU")>>,
    <<W("BO"), W("NYUU"), W("EIYOU"), DotStar, W("CHUUSHI")>> >>)

MilkWord == Alt(<< <<W("NYUU"), W("JUU")>>, <<W("BO"), W("NYUU")>> >>)

NURS_RULES_RAW == <<
    [score |-> 3, tag |-> "stop_lactation",   rx |-> <<STOP_LACTATION>>],
    [score |-> 2, tag |-> "consider_benefit", rx |->
        <<W("YUUEKISEI"), DotStar, W("KOURYO"), DotStar, W("JU"), W("NYUU"), DotStar,
          One({"KEIZOKU", "CHUUSHI"}), DotStar, W("KENTOU")>>],
    [score |-> 1, tag |-> "info_only",        rx |->
        <<MilkWord, DotStar, One({"IKOU", "KENSHUTSU", "MITOMERARETA"})>>] >>

NURS_RULES == NURS_RULES_RAW

Animal  == One({"DOUBUTSU", "HIRINSHOU", "RAT", "MOUSE", "USAGI", "SARU"})
Newborn == One({"SHINSEIJI", "SHUSSEIJI"})

\* Of the class [0-9 U+FF10-U+FF19] the texts use these digits.
DIGITS == {"0", "1", "2", "3", "4", "9", "FW1", "FW9"}

PREG_EVIDENCE_PATS == [
    has_human_terato |-> <<One({"HITO", "HITO_K"}), DotStar, Alt(<<
        <<W("KIKEI")>>,
        <<W("SAI"), W("KIKEI")>>,
        <<W("TAIJI"), W("SHOUGAI")>>,
        <<W("TAIJI"), W("DOKUSEI")>>,
        <<W("TAIJI"), W("he"), W("no"), W("EIKYOU")>>,
        <<W("SHUSSEIJI"), DotStar, One({"SHOUGAI", "EIKYOU"})>> >>)>>,
    has_animal_terato |-> <<Animal, DotStar, Alt(<<
        <<W("SAI"), W("KIKEI")>>,
        <<W("KIKEI"), W("SEI")>>,
        <<W("TAIJI"), W("DOKUSEI")>>,
        <<W("HAI"), DotStar, W("CHISHI")>>,
        <<W("TAISHI"), DotStar, W("SHIBOU")>>,
        <<W("TAIJI"), DotStar, W("EIKYOU")>> >>)>>,
    has_nonmalform_harm |-> <<Newborn, DotStar, Alt(<<
        <<W("KOKYUUYOKUSEI")>>,
        <<W("TEIKETTOU")>>,
        <<W("RIDATSU")>>,
        <<W("KIN_K"), W("DAN")>>,
        <<W("CHINSEI")>>,
        <<W("KIN"), One({"KINCHOU", "SHIKAN"})>>,
        <<W("SHINKEI")>>,
        <<W("HATTATSUCHIEN")>>,
        <<W("SHUKKETSU")>>,
        <<W("DOUMYAKUKAN"), DotStar, One({"SHUUSHUKU", "HEISA"})>>,
        <<W("HONE"), DotStar, One({"HATSUIKU", "SEICHOU", "SEKKAIKA"})>> >>)>>,
    mentions_trimester |-> <<Alt(<<
        <<W("NINSHIN"), One({"SHOKI", "CHUUKI", "KOUKI", "MAKKI"})>>,
        <<W("DAI"), One({"KANJI1", "KANJI2", "KANJI3", "1", "2", "3"}),
          Maybe(<<W("KANJI3")>>), W("HANKI")>>,
        <<One({"1", "2", "3"}), W("KI")>>,
        <<W("NINSHIN"), One(DIGITS), Maybe(<<One(DIGITS)>>), Star(WS),
          Maybe(<<W("KA")>>), W("GETSU")>> >>)>>,
    mentions_uncertain |-> <<Alt(<<
        <<W("EIKYOU"), W("ga"), W("FUMEI")>>,
        <<W("DATA"), W("ga"), One({"NAI", "FUSOKU"})>>,
        <<W("JOUHOU"), W("ga"), W("FUSOKU")>>,
        <<W("MICHI")>> >>)>>,
    pharm_concern |-> <<One({"YAKURISAYOU", "PROSTAGLANDIN", "RAAS", "ANGIOTENSIN",
                             "NSAID", "KOUTENKAN", "YOUSANKIKKOU", "RETINOID",
                             "STATIN"})>> ]

NURS_EVIDENCE_PATS == [
    milk_transfer_detected |-> <<MilkWord, DotStar, Alt(<<
        <<W("IKOU")>>,
        <<W("KENSHUTSU")>>,
        <<W("MITOMERARETA")>>,
        <<W("KENSHUTSU"), W("SARETA")>> >>)>>,
    milk_transfer_not_detected |-> <<MilkWord, DotStar, Alt(<<
        <<W("IKOU"), W("SHINAI")>>,
        <<W("KENSHUTSU"), W("SARENAKATTA")>>,
        <<W("MITOMERARENAI")>> >>)>>,
    adverse_infant_effects |-> <<
        Alt(<< <<W("NYUU"), W("JI_K")>>, <<W("SHINSEIJI")>>, <<W("SHUSSEIJI")>> >>),
        DotStar, Alt(<<
        <<W("KEIMIN")>>,
        <<W("CHINSEI")>>,
        <<W("GERI")>>,
        <<W("HASSHIN")>>,
        <<W("OUTO")>>,
        <<W("TAIJUUZOUKAFURYOU")>>,
        <<W("KOKYUUYOKUSEI")>>,
        <<W("KAN"), W("SHOUGAI")>>,
        <<W("OUDAN")>> >>)>>,
    recommend_stop_lactation |-> <<STOP_LACTATION>>,
    recommend_consideration |->
        <<W("YUUEKISEI"), DotStar, W("KOURYO"), DotStar,
          One({"KEIZOKU", "CHUUSHI"}), DotStar, W("KENTOU")>>,
    pumping_discard |-> <<Alt(<<
        <<W("SAKU"), W("NYUU"), DotStar, W("HAKI")>>,
        <<W("MILK"), DotStar, W("CHIKAN")>>,
        <<W("DAITAI"), W("EIYOU")>>,
        <<W("HITO_K"), W("KOU"), W("NYUU")>> >>)>> ]

PREG_EVIDENCE_RX == PREG_EVIDENCE_PATS
NURS_EVIDENCE_RX == NURS_EVIDENCE_PATS

\* The module-level state of 32_label_women_risk that the functions read.
StaticTables ==
    [PREG_RULES       |-> PREG_RULES,
     NURS_RULES       |-> NURS_RULES,
     PREG_EVIDENCE_RX |-> PREG_EVIDENCE_RX,
     NURS_EVIDENCE_RX |-> NURS_EVIDENCE_RX]

\* s.replace(w, by) for a word w and a sequence of words by
RECURSIVE ReplaceWord(_, _, _)
ReplaceWord(s, w, by) ==
    IF s = <<>> THEN <<>>
    ELSE (IF Head(s) = w THEN by ELSE <<Head(s)>>) \o ReplaceWord(Tail(s), w, by)

\* re.sub(r"\s+", " ", s)
RECURSIVE SquashWhite(_)
SquashWhite(s) ==
    IF s = <<>> THEN <<>>
    ELSE IF Head(s) \in WS THEN <<SP>> \o SquashWhite(DropLeading(s, WS))
    ELSE <<Head(s)>> \o SquashWhite(Tail(s))

UWAMAWARU == <<"UWAMAWA", "ru">>

normalize_for_match(s) ==
    IF s = None THEN <<>>
    ELSE LET s1 == ReplaceWord(ReplaceWord(ReplaceWord(s, ZSP, <<SP>>), CR, <<SP>>), NL, <<SP>>)
             s2 == SquashWhite(s1)
             s3 == ReplaceWord(ReplaceWord(s2, "UWAMAWARU_KANA", UWAMAWARU),
                               "UWAMAWARU_ITAI", UWAMAWARU)
         IN  strip(s3)

\* not isinstance(text, str) or not text.strip(); None stands for every
\* value that is no string.
Blank(text) == text = None \/ strip(text) = <<>>

\* None where a rule table (a list) or a pattern dictionary is expected
UnsetTable == <<[unset |-> TRUE]>>
UnsetDict  == [unset |-> TRUE]

\* A plausible slip: the last matching rule wins instead of the first.
classify_lastRule(text, rules) ==
    IF Blank(text) THEN <<0, "none">>
    ELSE IF rules = UnsetTable THEN Raised
    ELSE LET t    == normalize_for_match(text)
             hits == {k \in 1..Len(rules) : search(rules[k].rx, t)}
         IN  IF hits = {} THEN <<0, "unclear">>
             ELSE LET k == CHOOSE h \in hits : \A j \in hits : h >= j
                  IN  <<rules[k].score, rules[k].tag>>

\* A plausible slip: a text without a match is reported like a missing text.
classify_noUnclear(text, rules) ==
    IF Blank(text) THEN <<0, "none">>
    ELSE IF rules = UnsetTable THEN Raised
    ELSE LET t    == normalize_for_match(text)
             hits == {k \in 1..Len(rules) : search(rules[k].rx, t)}
         IN  IF hits = {} THEN <<0, "none">>
             ELSE LET k == CHOOSE h \in hits : \A j \in hits : h <= j
                  IN  <<rules[k].score, rules[k].tag>>

classify(text, rules) ==
    IF Blank(text) THEN <<0, "none">>
    ELSE IF rules = UnsetTable THEN Raised
    ELSE LET t    == normalize_for_match(text)
             hits == {k \in 1..Len(rules) : search(rules[k].rx, t)}
         IN  IF hits = {} THEN <<0, "unclear">>
             ELSE LET k == CHOOSE h \in hits : \A j \in hits : h <= j
                  IN  <<rules[k].score, rules[k].tag>>

\* A plausible slip: the flags are searched in the normalized text, as the
\* rules are.
extract_flags_normalized(text, rx_dict) ==
    IF Blank(text) THEN <<>>
    ELSE IF rx_dict = UnsetDict THEN RaisedMapping
    ELSE [k \in DOMAIN rx_dict |-> search(rx_dict[k], normalize_for_match(text))]

extract_flags(text, rx_dict) ==
    IF Blank(text) THEN <<>>
    ELSE IF rx_dict = UnsetDict THEN RaisedMapping
    ELSE [k \in DOMAIN rx_dict |-> search(rx_dict[k], text)]

----------------------------------------------------------------------------
(* Label normalization on its own: every string over LabelChars of length *)
(* at most MaxLabelLen, and None.                                          *)

MaxLabelLen == 4

LabelChars == {SP, COMMA, TOU, NA, DO, "A"}

RECURSIVE StringsUpTo(_, _)
StringsUpTo(chars, n) ==
    IF n = 0 THEN {<<>>}
    ELSE LET shorter == StringsUpTo(chars, n - 1)
         IN  shorter \cup {Append(s, c) : s \in shorter, c \in chars}

LabelInputs == StringsUpTo(LabelChars, MaxLabelLen) \cup {None}

InitLabel ==
    /\ pc = "call"
    /\ op = "normalize_partner_label"
    /\ arg \in LabelInputs
    /\ result = None
    /\ tables = StaticTables
    /\ memo = <<>>
    /\ calls = 0

Call_normalize_partner_label ==
    /\ pc = "call"
    /\ op = "normalize_partner_label"
    /\ pc' = "normalize_partner_label"
    /\ result' = normalize_partner_label(arg)
    /\ memo' = Remember(memo, <<op, arg>>, result')
    /\ calls' = calls + 1
    /\ UNCHANGED <<op, arg, tables>>

NextLabel == Call_normalize_partner_label

SpecLabel == InitLabel /\ [][NextLabel]_vars

\* C5: normalize_partner_label trims surrounding whitespace and list
\* punctuation; it returns None for None, "", a whitespace-only string and a
\* string whose trimmed core is exactly a noise token; otherwise it removes one
\* trailing and then one leading noise token, strips whitespace again after
\* each removal, and returns None if nothing is left, else the cleaned string.
\* It never returns "", and "A TOU" without the blank becomes "A".
KeptIndices(s, cls) == {i \in 1..Len(s) : s[i] \notin cls}

Core(s, cls) ==
    LET kept == KeptIndices(s, cls)
    IN  IF kept = {} THEN <<>>
        ELSE SubSeq(s, CHOOSE i \in kept : \A j \in kept : i <= j,
                       CHOOSE i \in kept : \A j \in kept : i >= j)

CutNoiseAtEnd(t) ==
    IF \E n \in {NOISE_TOU, NOISE_NADO} : EndsWith(t, n)
    THEN LET n == CHOOSE n \in {NOISE_TOU, NOISE_NADO} : EndsWith(t, n)
         IN  SubSeq(t, 1, Len(t) - Len(n))
    ELSE t

CutNoiseAtStart(t) ==
    IF \E n \in {NOISE_TOU, NOISE_NADO} : StartsWith(t, n)
    THEN LET n == CHOOSE n \in {NOISE_TOU, NOISE_NADO} : StartsWith(t, n)
         IN  SubSeq(t, Len(n) + 1, Len(t))
    ELSE t

C5_NormalizeLabel ==
    pc = "normalize_partner_label" =>
        LET blank == arg = None \/ KeptIndices(arg, WS) = {}
            t     == Core(arg, PUNCTWS)
            u     == Core(CutNoiseAtEnd(t), WS)
            v     == Core(CutNoiseAtStart(u), WS)
        IN  /\ result # <<>>
            /\ blank => result = None
            /\ (~blank /\ t \in {NOISE_TOU, NOISE_NADO}) => result = None
            /\ (~blank /\ t \notin {NOISE_TOU, NOISE_NADO}) =>
                   result = (IF v = <<>> THEN None ELSE v)
            /\ arg = <<"A", TOU>> => result = <<"A">>
            /\ arg = <<SP, SP>> => result = None

C5_Witness ==
    /\ pc = "normalize_partner_label"
    /\ arg = <<TOU, "A", NA, DO>>
    /\ result = <<"A">>

----------------------------------------------------------------------------
(* xml.etree.ElementTree elements.  An element is a record                 *)
(*   [tag, attrib, text, children, tail]                                   *)
(* tag is <<namespace, local name>> (ElementTree's "{uri}Local"), attrib a *)
(* function from attribute keys to strings, text and tail a string or      *)
(* None, children the sequence of child elements.  NoElement is the None   *)
(* that find() returns.                                                    *)

PI_NS    == "pi"     \* http://info.pmda.go.jp/namespace/prescription_drugs/package_insert/1.0
XMLNS    == "xml"    \* http://www.w3.org/XML/1998/namespace
OTHER_NS == "x"      \* any other namespace

XML_LANG == "{xml}lang"

Q(name) == <<PI_NS, name>>

NoElement == [none |-> TRUE]

Elem(tag, attrib, text, children, tail) ==
    [tag |-> tag, attrib |-> attrib, text |-> text, children |-> children, tail |-> tail]

\* Element.get(key)
get(el, key) == IF key \in DOMAIN el.attrib THEN el.attrib[key] ELSE None

RECURSIVE Flatten(_)
Flatten(seqs) == IF seqs = <<>> THEN <<>> ELSE Head(seqs) \o Flatten(Tail(seqs))

\* Element.findall(path) for a path of child steps "pi:a/pi:b/...", given as
\* the sequence of local names: the matches in document order.
RECURSIVE findall(_, _)
findall(el, path) ==
    IF path = <<>> THEN <<el>>
    ELSE LET kids == SelectSeq(el.children, LAMBDA c : c.tag = Q(Head(path)))
         IN  Flatten([i \in 1..Len(kids) |-> findall(kids[i], Tail(path))])

\* Element.find(path): the first match or None.
find(el, path) ==
    LET hits == findall(el, path)
    IN  IF hits = <<>> THEN NoElement ELSE hits[1]

\* Element.iter(): the element and its descendants in document order.
RECURSIVE iter(_)
iter(el) == <<el>> \o Flatten([i \in 1..Len(el.children) |-> iter(el.children[i])])

\* "".join(el.itertext()): the text of the whole subtree, tails of the
\* descendants included, the element's own tail excluded.
RECURSIVE itertext(_)
itertext(el) ==
    (IF Truthy(el.text) THEN el.text ELSE <<>>)
    \o Flatten([i \in 1..Len(el.children) |->
                   itertext(el.children[i])
                   \o (IF Truthy(el.children[i].tail) THEN el.children[i].tail ELSE <<>>)])

\* Python's "a or b" on Optional[str].
Or(a, b) == IF Truthy(a) THEN a ELSE b

NoneIfEmpty(s) == IF s = <<>> THEN None ELSE s

\* Index of the first entry of seq that satisfies P, 0 if there is none.
FirstIndex(seq, P(_)) ==
    IF \E i \in 1..Len(seq) : P(seq[i])
    THEN CHOOSE i \in 1..Len(seq) : P(seq[i]) /\ \A j \in 1..(i - 1) : ~P(seq[j])
    ELSE 0

JA == <<"j", "a">>

get_text_direct(el) ==
    IF el # NoElement /\ Truthy(el.text) THEN NoneIfEmpty(strip(el.text)) ELSE None

get_text(node, path) ==
    IF node = NoElement THEN None ELSE get_text_direct(find(node, path))

text_ja(detail_elem) ==
    IF detail_elem = NoElement THEN None
    ELSE LET langs == findall(detail_elem, <<"Lang">>)
             i == FirstIndex(langs, LAMBDA l : /\ get(l, XML_LANG) = JA
                                               /\ Truthy(l.text)
                                               /\ strip(l.text) # <<>>)
         IN  IF i # 0 THEN strip(langs[i].text)
             ELSE IF Truthy(detail_elem.text) /\ strip(detail_elem.text) # <<>>
                  THEN strip(detail_elem.text)
                  ELSE None

\* A plausible slip: only the direct text of the Lang element is read.
lang_text_all_directOnly(detail_elem) ==
    IF detail_elem = NoElement THEN None
    ELSE LET langs == findall(detail_elem, <<"Lang">>)
             i == FirstIndex(langs, LAMBDA l : /\ get(l, XML_LANG) = JA
                                               /\ Truthy(l.text)
                                               /\ strip(l.text) # <<>>)
         IN  IF i # 0 THEN strip(langs[i].text) ELSE None

lang_text_all(detail_elem) ==
    IF detail_elem = NoElement THEN None
    ELSE LET langs == findall(detail_elem, <<"Lang">>)
             i == FirstIndex(langs, LAMBDA l : /\ get(l, XML_LANG) = JA
                                               /\ strip(itertext(l)) # <<>>)
         IN  IF i # 0 THEN strip(itertext(langs[i])) ELSE None

\* The selector of summary, symptoms and mechanism text:
\*   lang_text_all(det) or text_ja(det) or get_text_direct(det)
select_text(det) == Or(Or(lang_text_all(det), text_ja(det)), get_text_direct(det))

detail_text_full(detail_el) ==
    IF detail_el = NoElement THEN None
    ELSE LET s0 == lang_text_all(detail_el)
             s  == IF ~Truthy(s0)
                   THEN Or(text_ja(detail_el), get_text_direct(detail_el))
                   ELSE s0
         IN  IF ~Truthy(s) THEN None ELSE normalize_partner_label(strip(s))

----------------------------------------------------------------------------
(* Text selection on its own: Detail elements with any sequence of at most *)
(* MaxLangs children out of LangPalette and a direct text of DetailTexts,  *)
(* and the absent element.                                                 *)

MaxLangs == 2

JA_JP == <<"j", "a", "-", "J", "P">>
JA_UP == <<"J", "A">>
EN    == <<"e", "n">>

Lang(lang, text, kids) ==
    Elem(Q("Lang"), IF lang = None THEN <<>> ELSE (XML_LANG :> lang), text, kids, None)

\* An inline element inside a Lang: text "S", trailing text "T".
Sub == Elem(Q("Sub"), <<>>, <<"S">>, <<>>, <<"T">>)

LangPalette ==
    { Lang(JA, <<"L">>, <<>>),
      Lang(JA, <<SP, "M", SP>>, <<>>),
      Lang(JA, None, <<>>),
      Lang(JA, <<SP>>, <<>>),
      Lang(JA, None, <<Sub>>),
      Lang(JA, <<"L">>, <<Sub>>),
      Lang(JA_JP, <<"P">>, <<>>),
      Lang(JA_UP, <<"U">>, <<>>),
      Lang(EN, <<"E">>, <<>>),
      Lang(None, <<"N">>, <<>>),
      Elem(<<OTHER_NS, "Lang">>, (XML_LANG :> JA), <<"X">>, <<>>, None) }

DetailTexts == {None, <<SP>>, <<"D">>, <<SP, "D", SP>>}

RECURSIVE SeqsUpTo(_, _)
SeqsUpTo(S, n) ==
    IF n = 0 THEN {<<>>}
    ELSE LET shorter == SeqsUpTo(S, n - 1)
         IN  shorter \cup {Append(q, x) : q \in shorter, x \in S}

DetailInputs ==
    {Elem(Q("Detail"), <<>>, t, langs, None) :
        t \in DetailTexts, langs \in SeqsUpTo(LangPalette, MaxLangs)}
    \cup {NoElement}

InitDetail ==
    /\ pc = "call"
    /\ op \in {"select_text", "detail_text_full"}
    /\ arg \in DetailInputs
    /\ result = None
    /\ tables = StaticTables
    /\ memo = <<>>
    /\ calls = 0

Call_select_text ==
    /\ pc = "call"
    /\ op = "select_text"
    /\ pc' = "select_text"
    /\ result' = select_text(arg)
    /\ memo' = Remember(memo, <<op, arg>>, result')
    /\ calls' = calls + 1
    /\ UNCHANGED <<op, arg, tables>>

Call_detail_text_full ==
    /\ pc = "call"
    /\ op = "detail_text_full"
    /\ pc' = "detail_text_full"
    /\ result' = detail_text_full(arg)
    /\ memo' = Remember(memo, <<op, arg>>, result')
    /\ calls' = calls + 1
    /\ UNCHANGED <<op, arg, tables>>

NextDetail == Call_select_text \/ Call_detail_text_full

SpecDetail == InitDetail /\ [][NextDetail]_vars

\* str.lower() on the characters of the language tags.
lower(s) == [i \in 1..Len(s) |-> CASE s[i] = "J" -> "j"
                                   [] s[i] = "A" -> "a"
                                   [] s[i] = "P" -> "p"
                                   [] OTHER -> s[i]]

\* The Lang children (in the package-insert namespace) of a Detail whose
\* language passes the test IsJa and whose subtree text is not blank.
JaVariants(det, IsJa(_)) ==
    SelectSeq(det.children,
              LAMBDA c : /\ c.tag = Q("Lang")
                         /\ XML_LANG \in DOMAIN c.attrib
                         /\ IsJa(c.attrib[XML_LANG])
                         /\ KeptIndices(itertext(c), WS) # {})

\* What the fallback order of the selector prescribes for a Detail, given the
\* test that makes a Lang child the Japanese variant.
Selected(det, IsJa(_)) ==
    IF det = NoElement THEN None
    ELSE IF JaVariants(det, IsJa) # <<>>
         THEN Core(itertext(JaVariants(det, IsJa)[1]), WS)
    ELSE IF det.text # None /\ KeptIndices(det.text, WS) # {}
         THEN Core(det.text, WS)
    ELSE None

\* C6: the selector takes a Lang child for the Japanese variant when its
\* language attribute starts with "ja", case-insensitively ("ja-JP", "JA"), and
\* returns the stripped full subtree text of that variant.
C6_JaPrefixMatch ==
    pc = "select_text" =>
        result = Selected(arg, LAMBDA l : StartsWith(lower(l), JA))

\* C7: the selector returns None for an absent node, else the stripped full
\* subtree text of the first Japanese Lang child whose subtree text is not
\* blank, else the node's own stripped direct text if not blank, else None; it
\* never returns "".  (Japanese is what the code takes for it: xml:lang = "ja".)
\* detail_text_full returns the normalized label of that selection.
C7_FallbackOrder ==
    /\ pc = "select_text" =>
           /\ result = Selected(arg, LAMBDA l : l = JA)
           /\ result # <<>>
    /\ pc = "detail_text_full" =>
           /\ result = (IF Selected(arg, LAMBDA l : l = JA) = None THEN None
                        ELSE normalize_partner_label(Selected(arg, LAMBDA l : l = JA)))
           /\ result # <<>>

\* A Japanese variant without direct text but with an inline child precedes a
\* plain one, and the Detail has direct text: the subtree text "ST" is selected.
C7_Witness ==
    /\ pc = "select_text"
    /\ arg # NoElement
    /\ arg.text = <<"D">>
    /\ arg.children = <<Lang(JA, <<SP>>, <<>>), Lang(JA, None, <<Sub>>)>>
    /\ result = <<"S", "T">>

----------------------------------------------------------------------------
(* extract_partner_group_and_items                                         *)

\* A plausible slip: the label found last replaces the earlier occurrence.
RECURSIVE uniq_keepLast(_)
uniq_keepLast(items) ==
    IF items = <<>> THEN <<>>
    ELSE LET rest == uniq_keepLast(Tail(items))
             n    == Head(items)
         IN  IF \E i \in 1..Len(rest) : rest[i] = n THEN rest ELSE <<n>> \o rest

\* The "seen" loop: drop every label that occurred before.
RECURSIVE uniq(_)
uniq(items) ==
    IF items = <<>> THEN <<>>
    ELSE LET front == uniq(SubSeq(items, 1, Len(items) - 1))
             n     == items[Len(items)]
         IN  IF \E i \in 1..Len(front) : front[i] = n THEN front ELSE Append(front, n)

\* A plausible slip: the loop over the class-label candidates has no break, so
\* the last non-empty candidate wins.
class_label_of_lastWins(dn) ==
    LET dets == findall(dn, <<"Detail">>)
        ok   == {i \in 1..Len(dets) : Truthy(detail_text_full(dets[i]))}
    IN  IF ok = {} THEN None
        ELSE detail_text_full(dets[CHOOSE i \in ok : \A j \in ok : j <= i])

\* The loop over the Detail children of DrugName: the first one whose
\* normalized text is non-empty becomes the class label.
class_label_of(dn) ==
    LET dets == findall(dn, <<"Detail">>)
        i    == FirstIndex(dets, LAMBDA det : Truthy(detail_text_full(det)))
    IN  IF i = 0 THEN None ELSE detail_text_full(dets[i])

\* The loop over SimpleList/Item/Detail: the non-empty normalized labels.
item_labels_of(dn) ==
    LET dets == findall(dn, <<"SimpleList", "Item", "Detail">>)
        labs == [i \in 1..Len(dets) |-> detail_text_full(dets[i])]
    IN  SelectSeq(labs, Truthy)

\* Returns <<class_label, uniq_items>>.
extract_partner_group_and_items(drug_elem) ==
    LET dn == find(drug_elem, <<"DrugName">>)
    IN  IF dn = NoElement THEN <<None, <<>>>>
        ELSE <<class_label_of(dn), uniq(item_labels_of(dn))>>

----------------------------------------------------------------------------
(* Partner/group extraction on its own: Drug elements whose DrugName holds *)
(* one of LabelLists as class-label Details and a SimpleList of at most    *)
(* MaxItems Items, and a Drug without DrugName.                            *)

MaxItems == 4

\* <Detail><Lang xml:lang="ja">text</Lang></Detail>
JaDetail(text) == Elem(Q("Detail"), <<>>, None, <<Lang(JA, text, <<>>)>>, None)

Item(text) == Elem(Q("Item"), <<>>, None, <<JaDetail(text)>>, None)

ItemTexts  == {<<"A">>, <<"B">>, <<"C">>, <<"A", TOU>>, <<TOU>>}
LabelLists ==
    { <<>>,
      <<(<<"G">>)>>,
      <<(<<TOU>>)>>,
      <<(<<"G">>), (<<"H">>)>>,
      <<(<<"G">>), (<<TOU>>)>>,
      <<(<<TOU>>), (<<"G">>)>>,
      <<(<<TOU>>), (<<TOU>>)>> }

DrugName(labels, items) ==
    Elem(Q("DrugName"), <<>>, None,
         [i \in 1..Len(labels) |-> JaDetail(labels[i])]
         \o (IF items = <<>> THEN <<>>
             ELSE <<Elem(Q("SimpleList"), <<>>, None,
                         [i \in 1..Len(items) |-> Item(items[i])], None)>>),
         None)

DrugInputs ==
    {Elem(Q("Drug"), <<>>, None, <<DrugName(labels, items)>>, None) :
        labels \in LabelLists,
        items \in SeqsUpTo(ItemTexts, MaxItems)}
    \cup {Elem(Q("Drug"), <<>>, None, <<>>, None)}

InitDrug ==
    /\ pc = "call"
    /\ op = "extract_partner_group_and_items"
    /\ arg \in DrugInputs
    /\ result = None
    /\ tables = StaticTables
    /\ memo = <<>>
    /\ calls = 0

Call_extract_partner_group_and_items ==
    /\ pc = "call"
    /\ op = "extract_partner_group_and_items"
    /\ pc' = "extract_partner_group_and_items"
    /\ result' = extract_partner_group_and_items(arg)
    /\ memo' = Remember(memo, <<op, arg>>, result')
    /\ calls' = calls + 1
    /\ UNCHANGED <<op, arg, tables>>

NextDrug == Call_extract_partner_group_and_items

SpecDrug == InitDrug /\ [][NextDrug]_vars

\* The Detail elements of the given kind below the DrugName of a Drug, in
\* document order, read off the tree without the path functions.
DrugNameOf(drug) ==
    SelectSeq(drug.children, LAMBDA c : c.tag = Q("DrugName"))

LabelDetails(drug) ==
    IF DrugNameOf(drug) = <<>> THEN <<>>
    ELSE SelectSeq(DrugNameOf(drug)[1].children, LAMBDA c : c.tag = Q("Detail"))

ItemDetails(drug) ==
    IF DrugNameOf(drug) = <<>> THEN <<>>
    ELSE LET lists == SelectSeq(DrugNameOf(drug)[1].children,
                                LAMBDA c : c.tag = Q("SimpleList"))
             its   == Flatten([i \in 1..Len(lists) |->
                          SelectSeq(lists[i].children, LAMBDA c : c.tag = Q("Item"))])
         IN  Flatten([i \in 1..Len(its) |->
                 SelectSeq(its[i].children, LAMBDA c : c.tag = Q("Detail"))])

\* The normalized labels of the item Details, absent ones included.
NormalizedItems(drug) ==
    [i \in 1..Len(ItemDetails(drug)) |-> detail_text_full(ItemDetails(drug)[i])]

FirstAt(seq, x) == CHOOSE i \in 1..Len(seq) : seq[i] = x /\ \A j \in 1..(i - 1) : seq[j] # x

\* C3: the items returned hold no label twice, hold every non-absent
\* normalized label of the item list, and keep the order of first occurrence;
\* [A, B, A, C] gives [A, B, C].
C3_DedupFirstOccurrence ==
    pc = "extract_partner_group_and_items" =>
        LET items == result[2]
            labs  == NormalizedItems(arg)
        IN  /\ \A i, j \in 1..Len(items) : i # j => items[i] # items[j]
            /\ {items[i] : i \in 1..Len(items)}
                   = {labs[i] : i \in 1..Len(labs)} \ {None}
            /\ \A i, j \in 1..Len(items) :
                   i < j => FirstAt(labs, items[i]) < FirstAt(labs, items[j])
            /\ labs = <<(<<"A">>), (<<"B">>), (<<"A">>), (<<"C">>)>>
                   => items = <<(<<"A">>), (<<"B">>), (<<"C">>)>>

\* The item list B, "A etc.", TOU, A: the noise entry is dropped and the second
\* A is a repeat of the normalized "A etc.".
C3_Witness ==
    /\ pc = "extract_partner_group_and_items"
    /\ NormalizedItems(arg) = <<(<<"B">>), (<<"A">>), None, (<<"A">>)>>
    /\ result[2] = <<(<<"B">>), (<<"A">>)>>

\* C4 as stated: the group is the normalized text of the first label Detail
\* under DrugName, whatever that text normalizes to; later ones are ignored.
C4_FirstLabelAlways ==
    pc = "extract_partner_group_and_items" =>
        result[1] = (IF LabelDetails(arg) = <<>> THEN None
                     ELSE detail_text_full(LabelDetails(arg)[1]))

\* C4 amended: the group is the normalized text of the first label Detail
\* whose normalized text is not absent (None if there is none); every label
\* Detail after that one is ignored.
C4_FirstNonAbsentLabel ==
    pc = "extract_partner_group_and_items" =>
        LET labs == [i \in 1..Len(LabelDetails(arg)) |->
                        detail_text_full(LabelDetails(arg)[i])]
            ok   == {i \in 1..Len(labs) : labs[i] # None}
        IN  result[1] = (IF ok = {} THEN None
                         ELSE labs[CHOOSE i \in ok : \A j \in ok : i <= j])

\* Two candidate labels G and H: G is the group.
C4_Witness ==
    /\ pc = "extract_partner_group_and_items"
    /\ Len(LabelDetails(arg)) = 2
    /\ detail_text_full(LabelDetails(arg)[1]) = <<"G">>
    /\ detail_text_full(LabelDetails(arg)[2]) = <<"H">>
    /\ result[1] = <<"G">>

----------------------------------------------------------------------------
(* collect_interactions_flat                                               *)

\* The two category strings, U+4F75 U+7528 U+7981 U+5FCC ("heiyo kinki",
\* contraindicated) and U+4F75 U+7528 U+6CE8 U+610F ("heiyo chui", caution).
HEIYO_KINKI == "HEIYO_KINKI"
HEIYO_CHUI  == "HEIYO_CHUI"

\* A plausible slip: "/" for "//", so only the direct children are found.
findall_descendants_childOnly(el, path, t) == findall(el, Append(path, t))

\* root.findall("pi:a/pi:b//pi:t"): under every element the child path
\* reaches, the descendants tagged t, in document order.
findall_descendants(el, path, t) ==
    LET tops == findall(el, path)
    IN  Flatten([i \in 1..Len(tops) |->
            SelectSeq(Tail(iter(tops[i])), LAMBDA e : e.tag = Q(t))])

\* A plausible slip: the direct text of the field element is tried first.
get_symptoms_and_mechanism_fieldFirst(drug) ==
    LET sd == find(drug, <<"ClinSymptomsAndMeasures", "Detail">>)
        md == find(drug, <<"MechanismAndRiskFactors", "Detail">>)
    IN  << Or(get_text(drug, <<"ClinSymptomsAndMeasures">>),
              Or(lang_text_all(sd), text_ja(sd))),
           Or(get_text(drug, <<"MechanismAndRiskFactors">>),
              Or(lang_text_all(md), text_ja(md))) >>

get_symptoms_and_mechanism(drug) ==
    LET sd == find(drug, <<"ClinSymptomsAndMeasures", "Detail">>)
        md == find(drug, <<"MechanismAndRiskFactors", "Detail">>)
    IN  << Or(Or(lang_text_all(sd), text_ja(sd)),
              get_text(drug, <<"ClinSymptomsAndMeasures">>)),
           Or(Or(lang_text_all(md), text_ja(md)),
              get_text(drug, <<"MechanismAndRiskFactors">>)) >>

InteractionRecord(partner, group, sm, category) ==
    [partner |-> partner, group |-> group, symptoms |-> sm[1],
     mechanism |-> sm[2], category |-> category]

\* A plausible slip: the items are appended in reverse.
records_of_drug_reversed(drug, category) ==
    LET gi    == extract_partner_group_and_items(drug)
        items == gi[2]
        sm    == get_symptoms_and_mechanism(drug)
    IN  IF items # <<>>
        THEN [i \in 1..Len(items) |->
                 InteractionRecord(items[Len(items) + 1 - i], gi[1], sm, category)]
        ELSE IF Truthy(gi[1])
        THEN <<InteractionRecord(gi[1], gi[1], sm, category)>>
        ELSE <<>>

\* The body of the loop over the Drug blocks of one category: what one block
\* appends to flat.
records_of_drug(drug, category) ==
    LET gi    == extract_partner_group_and_items(drug)
        items == gi[2]
        sm    == get_symptoms_and_mechanism(drug)
    IN  IF items # <<>>
        THEN [i \in 1..Len(items) |-> InteractionRecord(items[i], gi[1], sm, category)]
        ELSE IF Truthy(gi[1])
        THEN <<InteractionRecord(gi[1], gi[1], sm, category)>>
        ELSE <<>>

collect_interactions_flat(root) ==
    LET dets    == findall_descendants(root, <<"Interactions", "SummaryOfCombination">>, "Detail")
        contra  == findall_descendants(root, <<"Interactions", "ContraIndicatedCombinations">>, "Drug")
        caution == findall_descendants(root, <<"Interactions", "PrecautionsForCombinations">>, "Drug")
    IN  [ summary |-> SelectSeq([i \in 1..Len(dets) |-> select_text(dets[i])], Truthy),
          flat    |-> Flatten([i \in 1..Len(contra) |-> records_of_drug(contra[i], HEIYO_KINKI)])
                      \o Flatten([i \in 1..Len(caution) |-> records_of_drug(caution[i], HEIYO_CHUI)]) ]

----------------------------------------------------------------------------
(* The flattener on whole documents: a PackageInsert whose Interactions    *)
(* element holds a summary, the two category containers with at most       *)
(* MaxDrugs blocks of BlockPalette between them, and a Drug outside both   *)
(* containers.                                                             *)

MaxDrugs == 3

\* <name><Detail><Lang xml:lang="ja">text</Lang></Detail></name>
Field(name, text) == Elem(Q(name), <<>>, None, <<JaDetail(text)>>, None)

Drug(kids) == Elem(Q("Drug"), <<>>, None, kids, None)

\* An intermediate grouping element between the container and the Drug.
Wrapped(drug) == Elem(Q("Combination"), <<>>, None, <<drug>>, None)

\* class label G, items A and B, symptoms and mechanism
DrugGAB ==
    Drug(<< DrugName(<<(<<"G">>)>>, <<(<<"A">>), (<<"B">>)>>),
            Field("ClinSymptomsAndMeasures", <<"s">>),
            Field("MechanismAndRiskFactors", <<"m">>) >>)

\* class label H only; the symptoms are the direct text of the field element
DrugH ==
    Drug(<< DrugName(<<(<<"H">>)>>, <<>>),
            Elem(Q("ClinSymptomsAndMeasures"), <<>>, <<"t">>, <<>>, None) >>)

\* the only label is a noise token and there is no item
DrugNoise == Drug(<< DrugName(<<(<<TOU>>)>>, <<>>) >>)

\* no class label; the items C and "C etc." normalize to the same label
DrugCC == Drug(<< DrugName(<<>>, <<(<<"C">>), (<<"C", TOU>>)>>) >>)

\* a Drug block that holds another Drug block
DrugNested == Drug(<< DrugName(<<(<<"G">>)>>, <<(<<"A">>), (<<"B">>)>>), DrugH >>)

BlockPalette == {DrugGAB, Wrapped(DrugH), DrugNoise, Wrapped(DrugCC), DrugNested}

Document(contra, caution) ==
    Elem(Q("PackageInsert"), <<>>, None,
         << Elem(Q("Interactions"), <<>>, None,
                 << Elem(Q("SummaryOfCombination"), <<>>, None, <<JaDetail(<<"u">>)>>, None),
                    Elem(Q("ContraIndicatedCombinations"), <<>>, None, contra, None),
                    Elem(Q("PrecautionsForCombinations"), <<>>, None, caution, None),
                    DrugGAB >>,
                 None) >>,
         None)

\* The blocks of a placement list that go to the given container, in order.
Placed(q, container) ==
    LET mine == SelectSeq(q, LAMBDA x : x[2] = container)
    IN  [i \in 1..Len(mine) |-> mine[i][1]]

DocumentInputs ==
    {Document(Placed(q, "contra"), Placed(q, "caution")) :
        q \in SeqsUpTo(BlockPalette \X {"contra", "caution"}, MaxDrugs)}

Init ==
    /\ pc = "call"
    /\ op = "collect_interactions_flat"
    /\ arg \in DocumentInputs
    /\ result = None
    /\ tables = StaticTables
    /\ memo = <<>>
    /\ calls = 0

Call_collect_interactions_flat ==
    /\ pc = "call"
    /\ op = "collect_interactions_flat"
    /\ pc' = "collect_interactions_flat"
    /\ result' = collect_interactions_flat(arg)
    /\ memo' = Remember(memo, <<op, arg>>, result')
    /\ calls' = calls + 1
    /\ UNCHANGED <<op, arg, tables>>

Next == Call_collect_interactions_flat

Spec == Init /\ [][Next]_vars

\* The Drug elements strictly below an element, at any depth, in document order.
RECURSIVE DrugsBelow(_)
DrugsBelow(el) ==
    Flatten([i \in 1..Len(el.children) |->
        (IF el.children[i].tag = Q("Drug") THEN <<el.children[i]>> ELSE <<>>)
        \o DrugsBelow(el.children[i])])

\* The category containers: the children called name of the Interactions
\* children of the root.
Containers(root, name) ==
    LET inter == SelectSeq(root.children, LAMBDA c : c.tag = Q("Interactions"))
    IN  Flatten([i \in 1..Len(inter) |->
            SelectSeq(inter[i].children, LAMBDA c : c.tag = Q(name))])

BlocksOf(root, name, category) ==
    LET cs    == Containers(root, name)
        drugs == Flatten([i \in 1..Len(cs) |-> DrugsBelow(cs[i])])
    IN  [i \in 1..Len(drugs) |-> [drug |-> drugs[i], category |-> category]]

\* Every Drug block of the document with its category, the contraindicated
\* ones first.
Blocks(root) ==
    BlocksOf(root, "ContraIndicatedCombinations", HEIYO_KINKI)
    \o BlocksOf(root, "PrecautionsForCombinations", HEIYO_CHUI)

\* The number of records a block is to yield.
EmitCount(drug) ==
    LET gi == extract_partner_group_and_items(drug)
    IN  IF Len(gi[2]) >= 1 THEN Len(gi[2]) ELSE IF gi[1] # None THEN 1 ELSE 0

RECURSIVE SumTo(_, _)
SumTo(counts, k) == IF k = 0 THEN 0 ELSE SumTo(counts, k - 1) + counts[k]

\* The records of flat that belong to block k when block i yields counts[i]
\* records.
Segment(flat, counts, k) == SubSeq(flat, SumTo(counts, k - 1) + 1, SumTo(counts, k))

\* C1: flat holds, block after block, N records for a block with N >= 1
\* deduplicated items (their partners are items of that block), one record
\* with partner = group = class label for a block with no item but a class
\* label, and nothing for a block with neither; its length is the sum of these
\* counts over the Drug blocks found at any depth under the two containers.
C1_FlatCardinality ==
    pc = "collect_interactions_flat" =>
        LET blocks == Blocks(arg)
            counts == [k \in 1..Len(blocks) |-> EmitCount(blocks[k].drug)]
            flat   == result.flat
        IN  /\ Len(flat) = SumTo(counts, Len(counts))
            /\ \A k \in 1..Len(blocks) :
                   LET gi  == extract_partner_group_and_items(blocks[k].drug)
                       seg == Segment(flat, counts, k)
                   IN  /\ Len(gi[2]) >= 1 =>
                              /\ Len(seg) = Len(gi[2])
                              /\ \A i \in 1..Len(seg) :
                                     \E j \in 1..Len(gi[2]) : seg[i].partner = gi[2][j]
                       /\ (gi[2] = <<>> /\ gi[1] # None) =>
                              /\ Len(seg) = 1
                              /\ seg[1].partner = gi[1]
                              /\ seg[1].group = gi[1]
                       /\ (gi[2] = <<>> /\ gi[1] = None) => seg = <<>>

\* A block without label or item and a wrapped class-only block in the
\* contraindicated container, a two-item block holding a class-only block in
\* the other: 0 + 1 + 2 + 1 records.
C1_Witness ==
    /\ pc = "collect_interactions_flat"
    /\ arg = Document(<<DrugNoise, Wrapped(DrugH)>>, <<DrugNested>>)
    /\ Len(Blocks(arg)) = 4
    /\ Len(result.flat) = 4
    /\ result.flat[1].partner = <<"H">>
    /\ result.flat[1].group = <<"H">>

\* C2: the records of a block with N >= 1 items carry the items as partners in
\* item order, all with the group, symptoms and mechanism of that block, and
\* with the category of the container the block lies under.
C2_RecordsOfBlock ==
    pc = "collect_interactions_flat" =>
        LET blocks  == Blocks(arg)
            counts  == [k \in 1..Len(blocks) |-> EmitCount(blocks[k].drug)]
            flat    == result.flat
            nContra == Len(BlocksOf(arg, "ContraIndicatedCombinations", HEIYO_KINKI))
        IN  \A k \in 1..Len(blocks) :
                LET d   == blocks[k].drug
                    gi  == extract_partner_group_and_items(d)
                    sm  == get_symptoms_and_mechanism(d)
                    seg == Segment(flat, counts, k)
                IN  Len(gi[2]) >= 1 =>
                        /\ [i \in 1..Len(seg) |-> seg[i].partner] = gi[2]
                        /\ \A i \in 1..Len(seg) :
                               /\ seg[i].group = gi[1]
                               /\ seg[i].symptoms = sm[1]
                               /\ seg[i].mechanism = sm[2]
                               /\ seg[i].category = HEIYO_KINKI <=> k <= nContra
                               /\ seg[i].category = HEIYO_CHUI <=> k > nContra

\* The block G with items A, B under the contraindicated container and once
\* more under the precaution container.
C2_Witness ==
    /\ pc = "collect_interactions_flat"
    /\ arg = Document(<<DrugGAB>>, <<DrugGAB>>)
    /\ result.flat =
           << InteractionRecord(<<"A">>, <<"G">>, <<(<<"s">>), (<<"m">>)>>, HEIYO_KINKI),
              InteractionRecord(<<"B">>, <<"G">>, <<(<<"s">>), (<<"m">>)>>, HEIYO_KINKI),
              InteractionRecord(<<"A">>, <<"G">>, <<(<<"s">>), (<<"m">>)>>, HEIYO_CHUI),
              InteractionRecord(<<"B">>, <<"G">>, <<(<<"s">>), (<<"m">>)>>, HEIYO_CHUI) >>

----------------------------------------------------------------------------
(* elem_to_json                                                            *)

NO_NS == ""

\* The tag of the synthetic entry that carries a child's trailing text.  A tag
\* string without "{uri}" is a bare local name, so this is also the tag of an
\* element named __tail__ in no namespace.
TAIL_TAG == <<NO_NS, "__tail__">>

NonBlank(t) == Truthy(t) /\ strip(t) # <<>>

\* A plausible slip: "attr" is written for every element, empty or not.
RECURSIVE elem_to_json_attrAlways(_)
elem_to_json_attrAlways(el) ==
    IF el = NoElement THEN NoElement
    ELSE LET children ==
                 Flatten([i \in 1..Len(el.children) |->
                     <<elem_to_json_attrAlways(el.children[i])>>
                     \o (IF NonBlank(el.children[i].tail)
                         THEN <<[tag |-> TAIL_TAG, text |-> strip(el.children[i].tail)]>>
                         ELSE <<>>)])
         IN  [tag |-> el.tag]
             @@ [attr |-> el.attrib]
             @@ (IF NonBlank(el.text) THEN [text |-> strip(el.text)] ELSE <<>>)
             @@ (IF children # <<>> THEN [children |-> children] ELSE <<>>)

\* A plausible slip: the trailing text of the children is left out.
RECURSIVE elem_to_json_noTail(_)
elem_to_json_noTail(el) ==
    IF el = NoElement THEN NoElement
    ELSE LET children == [i \in 1..Len(el.children) |-> elem_to_json_noTail(el.children[i])]
         IN  [tag |-> el.tag]
             @@ (IF DOMAIN el.attrib # {} THEN [attr |-> el.attrib] ELSE <<>>)
             @@ (IF NonBlank(el.text) THEN [text |-> strip(el.text)] ELSE <<>>)
             @@ (IF children # <<>> THEN [children |-> children] ELSE <<>>)

\* The dict elem_to_json returns is a record over the keys present.
RECURSIVE elem_to_json(_)
elem_to_json(el) ==
    IF el = NoElement THEN NoElement
    ELSE LET children ==
                 Flatten([i \in 1..Len(el.children) |->
                     <<elem_to_json(el.children[i])>>
                     \o (IF NonBlank(el.children[i].tail)
                         THEN <<[tag |-> TAIL_TAG, text |-> strip(el.children[i].tail)]>>
                         ELSE <<>>)])
         IN  [tag |-> el.tag]
             @@ (IF DOMAIN el.attrib # {} THEN [attr |-> el.attrib] ELSE <<>>)
             @@ (IF NonBlank(el.text) THEN [text |-> strip(el.text)] ELSE <<>>)
             @@ (IF children # <<>> THEN [children |-> children] ELSE <<>>)

----------------------------------------------------------------------------
(* The serializer on its own: elements a or b, with or without attribute   *)
(* and text, holding at most MaxKids children of JsonKids, and the absent  *)
(* element.                                                                *)

MaxKids == 2

JsonKids ==
    { Elem(Q("a"), <<>>, None, <<>>, None),
      Elem(Q("b"), <<>>, None, <<>>, None),
      Elem(Q("a"), [id |-> <<"1">>], None, <<>>, None),
      Elem(Q("a"), <<>>, <<"x">>, <<>>, None),
      Elem(Q("a"), <<>>, <<SP>>, <<>>, None),
      Elem(Q("a"), <<>>, <<SP, "y">>, <<>>, None),
      Elem(Q("a"), <<>>, None, <<>>, <<"x">>),
      Elem(Q("a"), <<>>, None, <<>>, <<SP>>),
      Elem(Q("a"), <<>>, None, <<Elem(Q("b"), <<>>, None, <<>>, <<"y", SP>>)>>, None),
      Elem(TAIL_TAG, <<>>, <<"x">>, <<>>, None) }

JsonInputs ==
    {Elem(Q(t), a, x, kids, None) :
        t \in {"a", "b"}, a \in {<<>>, [id |-> <<"1">>]}, x \in {None, <<"x">>},
        kids \in SeqsUpTo(JsonKids, MaxKids)}
    \cup {NoElement}

InitJson ==
    /\ pc = "call"
    /\ op = "elem_to_json"
    /\ arg \in JsonInputs
    /\ result = None
    /\ tables = StaticTables
    /\ memo = <<>>
    /\ calls = 0

Call_elem_to_json ==
    /\ pc = "call"
    /\ op = "elem_to_json"
    /\ pc' = "elem_to_json"
    /\ result' = elem_to_json(arg)
    /\ memo' = Remember(memo, <<op, arg>>, result')
    /\ calls' = calls + 1
    /\ UNCHANGED <<op, arg, tables>>

NextJson == Call_elem_to_json

SpecJson == InitJson /\ [][NextJson]_vars

HasTail(el) == el.tail # None /\ KeptIndices(el.tail, WS) # {}

\* The number of entries the first k children put into "children".
RECURSIVE EntriesBefore(_, _)
EntriesBefore(kids, k) ==
    IF k = 0 THEN 0
    ELSE EntriesBefore(kids, k - 1) + 1 + (IF HasTail(kids[k]) THEN 1 ELSE 0)

\* j has the serialized form of element el.
RECURSIVE Serializes(_, _)
Serializes(j, el) ==
    LET kids == el.children
    IN  /\ DOMAIN j \subseteq {"tag", "attr", "text", "children"}
        /\ "tag" \in DOMAIN j
        /\ j.tag = el.tag
        /\ "attr" \in DOMAIN j <=> DOMAIN el.attrib # {}
        /\ "attr" \in DOMAIN j => j.attr = el.attrib
        /\ "text" \in DOMAIN j <=> (el.text # None /\ KeptIndices(el.text, WS) # {})
        /\ "text" \in DOMAIN j => j.text = Core(el.text, WS)
        /\ "children" \in DOMAIN j <=> kids # <<>>
        /\ "children" \in DOMAIN j =>
               /\ Len(j.children) = EntriesBefore(kids, Len(kids))
               /\ \A i \in 1..Len(kids) :
                      LET at == EntriesBefore(kids, i - 1) + 1
                      IN  /\ Serializes(j.children[at], kids[i])
                          /\ HasTail(kids[i]) =>
                                 j.children[at + 1]
                                     = [tag |-> TAIL_TAG, text |-> Core(kids[i].tail, WS)]

\* C8: the output has "tag" always, "attr" exactly when the element has
\* attributes, "text" exactly when the direct text is not blank, "children"
\* exactly when the element has children; "children" lists the serialized
\* children in document order, each followed at once by a __tail__ entry
\* exactly when it has non-blank trailing text.
C8_JsonShape ==
    pc = "elem_to_json" =>
        IF arg = NoElement THEN result = NoElement ELSE Serializes(result, arg)

\* An element with attribute and text whose first child has trailing text and
\* whose second child has blank trailing text: three entries.
C8_Witness ==
    /\ pc = "elem_to_json"
    /\ arg = Elem(Q("b"), [id |-> <<"1">>], <<"x">>,
                  << Elem(Q("a"), <<>>, None, <<>>, <<"x">>),
                     Elem(Q("a"), <<>>, None, <<>>, <<SP>>) >>, None)
    /\ result = [ tag |-> Q("b"), attr |-> [id |-> <<"1">>], text |-> <<"x">>,
                  children |-> << [tag |-> Q("a")],
                                  [tag |-> TAIL_TAG, text |-> <<"x">>],
                                  [tag |-> Q("a")] >> ]

\* An element up to whitespace trimming: blank text and trailing text are
\* absent, other text is stripped; the trailing text of the root is not part
\* of its subtree.
RECURSIVE CanonKid(_)
CanonKid(el) ==
    [ tag      |-> el.tag,
      attrib   |-> el.attrib,
      text     |-> IF el.text = None THEN None ELSE NoneIfEmpty(Core(el.text, WS)),
      children |-> [i \in 1..Len(el.children) |-> CanonKid(el.children[i])],
      tail     |-> IF el.tail = None THEN None ELSE NoneIfEmpty(Core(el.tail, WS)) ]

Canon(el) == [CanonKid(el) EXCEPT !.tail = None]

RECURSIVE HasTailTag(_)
HasTailTag(el) ==
    el.tag = TAIL_TAG \/ \E i \in 1..Len(el.children) : HasTailTag(el.children[i])

IsTailEntry(j) == j.tag = TAIL_TAG

\* Reading a serialization back: an entry tagged __tail__ is the trailing
\* text of the entry before it, every other entry is a child element.
RECURSIVE Decode(_)
Decode(j) ==
    LET entries == IF "children" \in DOMAIN j THEN j.children ELSE <<>>
        elems   == {i \in 1..Len(entries) : ~IsTailEntry(entries[i])}
        order   == [n \in 1..Cardinality(elems) |->
                       CHOOSE i \in elems : Cardinality({k \in elems : k < i}) = n - 1]
    IN  [ tag      |-> j.tag,
          attrib   |-> IF "attr" \in DOMAIN j THEN j.attr ELSE <<>>,
          text     |-> IF "text" \in DOMAIN j THEN j.text ELSE None,
          children |-> [n \in 1..Len(order) |->
                           [Decode(entries[order[n]]) EXCEPT !.tail =
                               IF order[n] < Len(entries) /\ IsTailEntry(entries[order[n] + 1])
                               THEN entries[order[n] + 1].text
                               ELSE None]],
          tail     |-> None ]

\* C9 as stated: two subtrees that differ in tags, attributes, child order,
\* trimmed texts or trimmed trailing texts never serialize to the same value.
C9_Lossless ==
    (pc = "elem_to_json" /\ arg # NoElement) =>
        \A other \in JsonInputs \ {NoElement} :
            Canon(other) # Canon(arg) => elem_to_json(other) # result

\* C9 amended: among subtrees that hold no element tagged __tail__, the
\* serialization determines the subtree up to whitespace trimming: reading it
\* back gives the subtree.
C9_LosslessWithoutTailTag ==
    (pc = "elem_to_json" /\ arg # NoElement /\ ~HasTailTag(arg)) =>
        Decode(result) = Canon(arg)

\* A child with trailing text followed by a child that holds a child with
\* trailing text: both are read back.
C9_Witness ==
    /\ pc = "elem_to_json"
    /\ arg = Elem(Q("a"), <<>>, None,
                  << Elem(Q("a"), <<>>, None, <<>>, <<"x">>),
                     Elem(Q("a"), <<>>, None,
                          <<Elem(Q("b"), <<>>, None, <<>>, <<"y", SP>>)>>, None) >>, None)
    /\ Len(result.children) = 3
    /\ Decode(result) = Canon(arg)

----------------------------------------------------------------------------
(* 31_rawdata2women: the section locator                                   *)

PREGNANT_TAGS == {"UseInPregnant", "UseInPregnantWomen", "Pregnant"}
NURSING_TAGS  == {"UseInNursing", "UseInNursingMothers", "Nursing", "BreastFeeding"}
LANG_LOCAL    == "Lang"

\* A plausible slip: the namespace is not stripped, so only a tag without a
\* namespace equals its local name.
local_name_qualified(tag) == IF tag[1] = "" THEN tag[2] ELSE "{ns}" \o tag[2]

\* tag.split('}')[-1]
local_name(tag) == tag[2]

\* s.replace("\r\n", "\n").replace("\r", "\n")
RECURSIVE CrToLf(_)
CrToLf(s) ==
    IF s = <<>> THEN <<>>
    ELSE IF Head(s) = CR
         THEN <<NL>> \o CrToLf(IF Len(s) >= 2 /\ s[2] = NL THEN Tail(Tail(s)) ELSE Tail(s))
         ELSE <<Head(s)>> \o CrToLf(Tail(s))

\* re.sub(r"[cls]{least,}", by, s)
RECURSIVE SubRuns(_, _, _, _)
SubRuns(s, cls, least, by) ==
    IF s = <<>> THEN <<>>
    ELSE LET n    == Len(s) - Len(DropLeading(s, cls))
             rest == SubSeq(s, n + 1, Len(s))
         IN  IF n = 0 THEN <<Head(s)>> \o SubRuns(Tail(s), cls, least, by)
             ELSE IF n >= least THEN by \o SubRuns(rest, cls, least, by)
             ELSE SubSeq(s, 1, n) \o SubRuns(rest, cls, least, by)

BLANKS == {SP, TAB, ZSP}

\* A plausible slip: only the ends are trimmed, runs are kept.
textnorm_stripOnly(s) == IF s = None THEN None ELSE strip(s)

textnorm(s) ==
    IF s = None THEN None
    ELSE LET s1 == CrToLf(s)
             s2 == SubRuns(s1, BLANKS, 1, <<SP>>)
             s3 == SubRuns(s2, {NL}, 3, <<NL, NL>>)
         IN  strip(s3)

\* sep.join(parts)
RECURSIVE join(_, _)
join(sep, parts) ==
    IF parts = <<>> THEN <<>>
    ELSE IF Len(parts) = 1 THEN parts[1]
    ELSE parts[1] \o sep \o join(sep, Tail(parts))

\* The xml_str argument: None, the empty string, a string that does not
\* parse, or a document, given by the root element ET.fromstring builds.
XmlNone      == [kind |-> "None",      root |-> NoElement]
XmlEmpty     == [kind |-> "empty",     root |-> NoElement]
XmlMalformed == [kind |-> "malformed", root |-> NoElement]
Xml(root)    == [kind |-> "xml",       root |-> root]

\* lang and lang.lower().startswith("ja") for
\* lang = n.attrib.get("{XMLNS}lang") or n.attrib.get("lang")
IsJaLang(n) ==
    LET lang == Or(get(n, XML_LANG), get(n, "lang"))
    IN  Truthy(lang) /\ StartsWith(lower(lang), JA)

\* A plausible slip: the last occurrence of a text is kept, not the first.
uniq_texts_keepLast(seq) == uniq_keepLast(seq)

\* the local uniq of extract_section_texts
uniq_texts(seq) == uniq(seq)

\* ET.fromstring(xml_str): the root element; a string that is no document
\* raises ParseError.
ParseError == [error |-> "ParseError"]

fromstring(xml_str) == IF xml_str.kind = "xml" THEN xml_str.root ELSE ParseError

\* A plausible slip: the parse is not guarded, the error leaves the function.
try_fromstring_noCatch(xml_str) == fromstring(xml_str)

\* try: root = ET.fromstring(xml_str) / except Exception: return None, None
\* NoElement stands for the early return.
try_fromstring(xml_str) ==
    IF fromstring(xml_str) = ParseError THEN NoElement ELSE fromstring(xml_str)

\* Returns <<text, first_id>>.
extract_section_texts(xml_str, target_names) ==
    IF xml_str.kind \in {"None", "empty"} THEN <<None, None>>
    ELSE IF try_fromstring(xml_str) = ParseError THEN Raised
    ELSE IF try_fromstring(xml_str) = NoElement THEN <<None, None>>
    ELSE LET hits == SelectSeq(iter(try_fromstring(xml_str)),
                               LAMBDA e : local_name(e.tag) \in target_names)
         IN  IF hits = <<>> THEN <<None, None>>
             ELSE LET first_id    == get(hits[1], "id")
                      below       == Flatten([i \in 1..Len(hits) |-> iter(hits[i])])
                      langs       == SelectSeq(below,
                                         LAMBDA n : /\ local_name(n.tag) = LANG_LOCAL
                                                    /\ textnorm(itertext(n)) # <<>>)
                      ja          == SelectSeq(langs, IsJaLang)
                      other       == SelectSeq(langs, LAMBDA n : ~IsJaLang(n))
                      ja_texts    == [i \in 1..Len(ja) |-> textnorm(itertext(ja[i]))]
                      other_texts == [i \in 1..Len(other) |-> textnorm(itertext(other[i]))]
                      parts       ==
                          (IF ja_texts # <<>>
                           THEN <<join(<<NL, NL>>, uniq_texts(ja_texts))>> ELSE <<>>)
                          \o (IF other_texts # <<>>
                              THEN <<join(<<NL, NL>>, uniq_texts(other_texts))>> ELSE <<>>)
                  IN  IF ja_texts = <<>> /\ other_texts = <<>>
                      THEN <<textnorm(itertext(hits[1])), first_id>>
                      ELSE <<strip(join(<<NL, NL>>, parts)), first_id>>

Call_extract_section_texts ==
    /\ pc = "call"
    /\ op = "extract_section_texts"
    /\ pc' = "extract_section_texts"
    /\ result' = extract_section_texts(arg.xml_str, arg.target_names)
    /\ memo' = Remember(memo, <<op, arg>>, result')
    /\ calls' = calls + 1
    /\ UNCHANGED <<op, arg, tables>>

\* classify(text, PREG_RULES) or classify(text, NURS_RULES): arg.rules names
\* the module-level table that is passed.
Call_classify ==
    /\ pc = "call"
    /\ op = "classify"
    /\ pc' = "classify"
    /\ result' = classify(arg.text, tables[arg.rules])
    /\ memo' = Remember(memo, <<op, arg>>, result')
    /\ calls' = calls + 1
    /\ UNCHANGED <<op, arg, tables>>

\* extract_flags(text, PREG_EVIDENCE_RX) or extract_flags(text, NURS_EVIDENCE_RX)
Call_extract_flags ==
    /\ pc = "call"
    /\ op = "extract_flags"
    /\ pc' = "extract_flags"
    /\ result' = extract_flags(arg.text, tables[arg.rx_dict])
    /\ memo' = Remember(memo, <<op, arg>>, result')
    /\ calls' = calls + 1
    /\ UNCHANGED <<op, arg, tables>>

----------------------------------------------------------------------------
(* The core operations called one after another, in any order and with     *)
(* repetitions, on documents and texts of PurePool: at most MaxCalls calls.*)

MaxCalls == 4

SectionDoc ==
    Elem(Q("Doc"), <<>>, None,
         << Elem(Q("UseInPregnant"), [id |-> <<"p", "1">>], None,
                 << Elem(Q("Lang"), (XML_LANG :> JA), <<"a", SP, SP, "b">>, <<>>, None),
                    Elem(Q("Lang"), (XML_LANG :> EN), <<"c">>, <<>>, None) >>, None),
            Elem(Q("UseInNursing"), <<>>, <<"n">>, <<>>, None) >>, None)

\* "TOUYO SHINAI KOTO", then "GENSOKU TOUYO SHINAI": rules 3 and 2 match.
TextForbidden ==
    <<"TOUYO", "SHINAI", "KOTO", SP, "GENSOKU", "TOUYO", "SHINAI">>

\* rules 3 and 1 of NURS_RULES match
TextMilk == <<"BO", "NYUU", "ni", "IKOU", NL, "JU", "NYUU", "wo", "CHUUSHI">>

PurePool == <<
    <<"elem_to_json",
      Elem(Q("a"), [id |-> <<"1">>], <<"x">>,
           <<Elem(Q("b"), <<>>, None, <<>>, <<"y", SP>>)>>, None)>>,
    <<"extract_partner_group_and_items", DrugGAB>>,
    <<"collect_interactions_flat",
      Document(<<DrugNoise, Wrapped(DrugH)>>, <<DrugNested>>)>>,
    <<"extract_section_texts",
      [xml_str |-> Xml(SectionDoc), target_names |-> PREGNANT_TAGS]>>,
    <<"extract_section_texts",
      [xml_str |-> Xml(SectionDoc), target_names |-> NURSING_TAGS]>>,
    <<"classify", [text |-> TextForbidden, rules |-> "PREG_RULES"]>>,
    <<"classify", [text |-> TextMilk, rules |-> "NURS_RULES"]>>,
    <<"classify", [text |-> TextMilk, rules |-> "PREG_RULES"]>>,
    <<"extract_flags", [text |-> TextMilk, rx_dict |-> "NURS_EVIDENCE_RX"]>>,
    <<"extract_flags", [text |-> TextMilk, rx_dict |-> "PREG_EVIDENCE_RX"]>> >>

InitPure ==
    /\ pc = "call"
    /\ \E k \in 1..Len(PurePool) : op = PurePool[k][1] /\ arg = PurePool[k][2]
    /\ result = None
    /\ tables = StaticTables
    /\ memo = <<>>
    /\ calls = 0

\* The caller takes the next document or text.
Load ==
    /\ pc # "call"
    /\ calls < MaxCalls
    /\ pc' = "call"
    /\ \E k \in 1..Len(PurePool) : op' = PurePool[k][1] /\ arg' = PurePool[k][2]
    /\ UNCHANGED <<result, tables, memo, calls>>

NextPure ==
    \/ Load
    \/ Call_elem_to_json
    \/ Call_extract_partner_group_and_items
    \/ Call_collect_interactions_flat
    \/ Call_extract_section_texts
    \/ Call_classify
    \/ Call_extract_flags

SpecPure == InitPure /\ [][NextPure]_vars

\* That a call leaves its input and the tables as they were is what every
\* Call_ action above states after the code (none of the functions assigns to
\* its argument, to an element of its input tree or to a module-level table),
\* and a repeated call is the same operator on the same values; no formula
\* over these actions says more than the actions themselves.

----------------------------------------------------------------------------
(* Symptoms and mechanism on their own: Drug blocks with at most MaxFields *)
(* ClinSymptomsAndMeasures elements out of FieldPalette and one of         *)
(* MechanismInputs.                                                        *)

MaxFields == 2

FieldElem(name, text, dets) == Elem(Q(name), <<>>, text, dets, None)

\* <Detail> direct text <Lang>...</Lang> </Detail>
DetailOf(text, langs) == Elem(Q("Detail"), <<>>, text, langs, None)

FieldDetails ==
    { <<>>,
      <<DetailOf(None, <<Lang(JA, <<"L">>, <<>>)>>)>>,
      <<DetailOf(<<"D">>, <<Lang(JA, None, <<Sub>>)>>)>>,
      <<DetailOf(<<SP, "D">>, <<Lang(EN, <<"E">>, <<>>)>>)>>,
      <<DetailOf(<<SP>>, <<Lang(JA, <<SP>>, <<>>)>>)>>,
      <<DetailOf(None, <<>>), DetailOf(None, <<Lang(JA, <<"L">>, <<>>)>>)>> }

FieldPalette ==
    {FieldElem("ClinSymptomsAndMeasures", t, d) :
        t \in {None, <<SP>>, <<"F", SP>>}, d \in FieldDetails}

MechanismInputs ==
    { <<>>,
      <<FieldElem("MechanismAndRiskFactors", <<"K">>, <<>>)>>,
      <<FieldElem("MechanismAndRiskFactors", <<"K">>,
                  <<DetailOf(<<"R">>, <<Lang(JA, <<"Q">>, <<>>)>>)>>)>> }

FieldDrugInputs ==
    {Drug(m \o s) : s \in SeqsUpTo(FieldPalette, MaxFields), m \in MechanismInputs}

InitField ==
    /\ pc = "call"
    /\ op = "get_symptoms_and_mechanism"
    /\ arg \in FieldDrugInputs
    /\ result = None
    /\ tables = StaticTables
    /\ memo = <<>>
    /\ calls = 0

Call_get_symptoms_and_mechanism ==
    /\ pc = "call"
    /\ op = "get_symptoms_and_mechanism"
    /\ pc' = "get_symptoms_and_mechanism"
    /\ result' = get_symptoms_and_mechanism(arg)
    /\ memo' = Remember(memo, <<op, arg>>, result')
    /\ calls' = calls + 1
    /\ UNCHANGED <<op, arg, tables>>

NextField == Call_get_symptoms_and_mechanism

SpecField == InitField /\ [][NextField]_vars

\* The children of the block that are the field, and the Detail children of
\* those, in document order.
FieldElems(drug, name) == SelectSeq(drug.children, LAMBDA c : c.tag = Q(name))

FieldDetailsOf(drug, name) ==
    Flatten([i \in 1..Len(FieldElems(drug, name)) |->
                SelectSeq(FieldElems(drug, name)[i].children,
                          LAMBDA c : c.tag = Q("Detail"))])

\* What the fallback order prescribes for one field of a block.
FieldText(drug, name) ==
    LET dets   == FieldDetailsOf(drug, name)
        fields == FieldElems(drug, name)
        byDet  == IF dets = <<>> THEN None ELSE Selected(dets[1], LAMBDA l : l = JA)
    IN  IF byDet # None THEN byDet
        ELSE IF /\ fields # <<>>
                /\ fields[1].text # None
                /\ KeptIndices(fields[1].text, WS) # {}
             THEN Core(fields[1].text, WS)
        ELSE None

\* C11: symptoms and mechanism are each the Japanese variant's full subtree
\* text of the first Detail under the field, else that Detail's own direct
\* text, else the direct text of the (first) field element, else None; a
\* later source is used only when every earlier one is absent or blank.
C11_FieldFallback ==
    pc = "get_symptoms_and_mechanism" =>
        /\ result[1] = FieldText(arg, "ClinSymptomsAndMeasures")
        /\ result[2] = FieldText(arg, "MechanismAndRiskFactors")
        /\ result[1] # <<>> /\ result[2] # <<>>

\* The first Detail under the field is blank, so the direct text of the field
\* element is the symptoms; the mechanism comes from its Japanese variant.
C11_Witness ==
    /\ pc = "get_symptoms_and_mechanism"
    /\ FieldElems(arg, "ClinSymptomsAndMeasures") =
           <<FieldElem("ClinSymptomsAndMeasures", <<"F", SP>>,
                       <<DetailOf(<<SP>>, <<Lang(JA, <<SP>>, <<>>)>>)>>)>>
    /\ result[1] = <<"F">>
    /\ result[2] = <<"Q">>

----------------------------------------------------------------------------
(* The section locator on its own: documents whose root holds at most      *)
(* MaxSections elements of SectionPalette, each of those elements as a     *)
(* document of its own, and the strings that are no document; both target  *)
(* sets.                                                                   *)

MaxSections == 2

Sec(ns, name, attrib, text, kids) == Elem(<<ns, name>>, attrib, text, kids, None)

\* <Lang lang="ja" xml:lang="en">: the xml:lang attribute is read first
LangBoth == Elem(Q("Lang"), (XML_LANG :> EN) @@ ("lang" :> JA), <<"f">>, <<>>, None)

\* <Lang lang="JA-jp"> in no namespace
LangPlain == Elem(<<NO_NS, "Lang">>, ("lang" :> <<"J", "A", "-", "j", "p">>),
                  <<"b">>, <<>>, None)

Nested ==
    Sec(PI_NS, "UseInPregnant", [id |-> <<"p", "7">>], None,
        << Sec(PI_NS, "Pregnant", [id |-> <<"p", "8">>], None,
               <<Lang(JA, <<"a">>, <<>>)>>),
           Lang(JA, <<"b">>, <<>>) >>)

SectionPalette ==
    { Sec(PI_NS, "UseInPregnant", [id |-> <<"p", "1">>], None,
          <<Lang(JA, <<"a", SP, SP, "b">>, <<>>), Lang(EN, <<"c">>, <<>>)>>),
      Sec(OTHER_NS, "Pregnant", [id |-> <<"p", "2">>], <<"t">>,
          <<Lang(EN, <<"c">>, <<>>), LangPlain, Lang(EN, <<"e">>, <<>>),
            Lang(EN, <<"c">>, <<>>)>>),
      Sec(NO_NS, "UseInPregnantWomen", <<>>, <<SP, "t", NL, NL, NL, "u", TAB>>, <<>>),
      Sec(PI_NS, "Pregnant", [id |-> <<>>], <<"u", ZSP, SP>>,
          <<Elem(Q("Detail"), <<>>, <<"w">>, <<>>, <<CR, NL, "z">>)>>),
      Sec(PI_NS, "Pregnant", [id |-> <<"p", "5">>], <<"v">>,
          <<Lang(JA, <<SP>>, <<>>)>>),
      Sec(PI_NS, "Other", [id |-> <<"o">>], None,
          <<Sec(PI_NS, "Pregnant", [id |-> <<"p", "6">>], None,
                <<Lang(None, <<"d">>, <<Sub>>), LangBoth>>)>>),
      Nested,
      Sec(PI_NS, "UseInNursing", [id |-> <<"n", "1">>], None,
          <<Lang(JA_JP, <<"a">>, <<>>), Lang(JA, <<"a">>, <<>>)>>),
      Sec(PI_NS, "BreastFeeding", <<>>, <<"m">>, <<>>),
      Sec(PI_NS, "Nursing", [id |-> <<"n", "2">>], None, <<>>),
      Sec(PI_NS, "UseInNursingMothers", <<>>, <<SP, NL>>,
          <<Lang(JA, <<ZSP>>, <<>>)>>),
      Sec(PI_NS, "pregnant", [id |-> <<"x">>], <<"q">>, <<>>) }

SectionDocs ==
    {Sec(PI_NS, "Doc", <<>>, None, kids) : kids \in SeqsUpTo(SectionPalette, MaxSections)}
    \cup SectionPalette

SectionInputs ==
    {[xml_str |-> x, target_names |-> names] :
        x \in {Xml(d) : d \in SectionDocs} \cup {XmlNone, XmlEmpty, XmlMalformed},
        names \in {PREGNANT_TAGS, NURSING_TAGS}}

InitSection ==
    /\ pc = "call"
    /\ op = "extract_section_texts"
    /\ arg \in SectionInputs
    /\ result = None
    /\ tables = StaticTables
    /\ memo = <<>>
    /\ calls = 0

NextSection == Call_extract_section_texts

SpecSection == InitSection /\ [][NextSection]_vars

\* The elements of a subtree with a local name in names, depth first in
\* document order.
RECURSIVE Matching(_, _)
Matching(el, names) ==
    (IF el.tag[2] \in names THEN <<el>> ELSE <<>>)
    \o Flatten([i \in 1..Len(el.children) |-> Matching(el.children[i], names)])

IsDocument(a) == a.xml_str.kind = "xml"

SectionHits(a) ==
    IF IsDocument(a) THEN Matching(a.xml_str.root, a.target_names) ELSE <<>>

\* C12: (None, None) when no element of the document has a local name of the
\* target set; otherwise the second component is the id attribute of the
\* first matching element in depth-first document order, None if it has none.
C12_FirstHitId ==
    pc = "extract_section_texts" =>
        IF SectionHits(arg) = <<>> THEN result = <<None, None>>
        ELSE result[2] = (IF "id" \in DOMAIN SectionHits(arg)[1].attrib
                          THEN SectionHits(arg)[1].attrib["id"] ELSE None)

\* A matching element nested in a non-matching one precedes a matching
\* element in another namespace: the id of the nested one is returned.
C12_Witness ==
    /\ pc = "extract_section_texts"
    /\ arg.target_names = PREGNANT_TAGS
    /\ IsDocument(arg)
    /\ Len(SectionHits(arg)) = 2
    /\ SectionHits(arg)[2].tag = <<OTHER_NS, "Pregnant">>
    /\ result[2] = <<"p", "6">>

\* The elements of a subtree with local name Lang, depth first.
RECURSIVE LangsBelow(_)
LangsBelow(el) ==
    (IF el.tag[2] = "Lang" THEN <<el>> ELSE <<>>)
    \o Flatten([i \in 1..Len(el.children) |-> LangsBelow(el.children[i])])

\* The language-variant nodes visited over all matching elements, those
\* without text dropped.
VisitedLangs(a) ==
    SelectSeq(Flatten([i \in 1..Len(SectionHits(a)) |-> LangsBelow(SectionHits(a)[i])]),
              LAMBDA n : textnorm(itertext(n)) # <<>>)

\* The language attribute of a node (xml:lang, else lang) starts with "ja",
\* whatever the case.
HasJaAttr(n) ==
    LET key == IF XML_LANG \in DOMAIN n.attrib /\ n.attrib[XML_LANG] # <<>>
               THEN XML_LANG ELSE "lang"
    IN  /\ key \in DOMAIN n.attrib
        /\ Len(n.attrib[key]) >= 2
        /\ n.attrib[key][1] \in {"j", "J"}
        /\ n.attrib[key][2] \in {"a", "A"}

\* A sequence without the entries that occurred before.
FirstSeen(seq) ==
    LET keep == {i \in 1..Len(seq) : \A j \in 1..(i - 1) : seq[j] # seq[i]}
        nth(k) == CHOOSE i \in keep : Cardinality({j \in keep : j <= i}) = k
    IN  [k \in 1..Cardinality(keep) |-> seq[nth(k)]]

Bucket(a, ja) ==
    LET nodes == SelectSeq(VisitedLangs(a), LAMBDA n : HasJaAttr(n) = ja)
    IN  FirstSeen([i \in 1..Len(nodes) |-> textnorm(itertext(nodes[i]))])

\* The entries of a sequence of strings with a blank line between them.
RECURSIVE BlankLineJoined(_)
BlankLineJoined(texts) ==
    IF Len(texts) = 1 THEN texts[1]
    ELSE BlankLineJoined(SubSeq(texts, 1, Len(texts) - 1)) \o <<NL, NL>> \o texts[Len(texts)]

\* C13: when language-variant text exists under the matching elements, the
\* text is the "ja" bucket followed by the "other" bucket, both collected
\* over all matching elements, each without the strings that occurred before
\* in it, all entries separated by a blank line.
C13_Buckets ==
    (pc = "extract_section_texts" /\ VisitedLangs(arg) # <<>>) =>
        result[1] = BlankLineJoined(Bucket(arg, TRUE) \o Bucket(arg, FALSE))

\* Two matching elements: the second holds "c" twice and a "ja" text after it.
\* The result is "a b", "b", "c", "e": ja first, "c" once.
C13_Witness ==
    /\ pc = "extract_section_texts"
    /\ arg.target_names = PREGNANT_TAGS
    /\ Len(SectionHits(arg)) = 2
    /\ Bucket(arg, TRUE) = << <<"a", SP, "b">>, <<"b">> >>
    /\ Bucket(arg, FALSE) = << <<"c">>, <<"e">> >>
    /\ result[1] = <<"a", SP, "b", NL, NL, "b", NL, NL, "c", NL, NL, "e">>

\* No matching element has an element with local name Lang below it.
NoLangBelowHits(a) ==
    \A i \in 1..Len(SectionHits(a)) : LangsBelow(SectionHits(a)[i]) = <<>>

\* The text of a subtree: the text of the element, then for each child its
\* subtree text and its trailing text.
RECURSIVE SubtreeText(_)
SubtreeText(el) ==
    LET own    == IF el.text = None THEN <<>> ELSE el.text
        kid(c) == SubtreeText(c) \o (IF c.tail = None THEN <<>> ELSE c.tail)
    IN  own \o Flatten([i \in 1..Len(el.children) |-> kid(el.children[i])])

\* A whitespace-normalized string: no CR, TAB or ZSP, no two spaces in a row,
\* no three newlines in a row, no whitespace at either end.
IsNormalized(s) ==
    /\ \A i \in 1..Len(s) : s[i] \notin {CR, TAB, ZSP}
    /\ \A i \in 1..(Len(s) - 1) : ~(s[i] = SP /\ s[i + 1] = SP)
    /\ \A i \in 1..(Len(s) - 2) : ~(s[i] = NL /\ s[i + 1] = NL /\ s[i + 2] = NL)
    /\ s # <<>> => (s[1] \notin WS /\ s[Len(s)] \notin WS)

\* C14: if no matching element has a language-variant descendant, the result
\* is the whitespace-normalized text of the subtree of the first matching
\* element alone, with the id of that element.
C14_FallbackFirstHit ==
    (pc = "extract_section_texts" /\ SectionHits(arg) # <<>> /\ NoLangBelowHits(arg)) =>
        /\ result[1] = textnorm(SubtreeText(SectionHits(arg)[1]))
        /\ IsNormalized(result[1])
        /\ result[2] = get(SectionHits(arg)[1], "id")

\* Two matching elements without Lang: the text "t", two newlines, "u" of the
\* first is returned, the "u z" part of the second is not.
C14_Witness ==
    /\ pc = "extract_section_texts"
    /\ arg.target_names = PREGNANT_TAGS
    /\ Len(SectionHits(arg)) = 2
    /\ NoLangBelowHits(arg)
    /\ SectionHits(arg)[2].attrib = [id |-> <<>>]
    /\ result = << <<"t", NL, NL, "u">>, None >>

----------------------------------------------------------------------------
(* 31_rawdata2women main: the scan over the source rows.  arg is the       *)
(* source table in scan order, calls the number of rows scanned, result    *)
(* the pending batch and the rows committed to the destination table       *)
(* (empty after the DROP / CREATE).  Tables of at most MaxRows rows with   *)
(* documents of RowDocs.                                                   *)

MaxRows == 3

\* batch_size of the configuration (500 when it is not set)
BATCH_SIZE == 2

\* Json(src_ids or None) for an empty src_ids
JsonNull == [null |-> TRUE]

\* The tuple appended to the batch for one source row (lines 240-258).
women_row(row, preg, nurs) ==
    LET ids == (IF Truthy(preg[2]) THEN ("pregnant" :> preg[2]) ELSE <<>>)
               @@ (IF Truthy(nurs[2]) THEN ("nursing" :> nurs[2]) ELSE <<>>)
    IN  [ key           |-> row.key,
          pregnant_text |-> preg[1],
          nursing_text  |-> nurs[1],
          has_pregnant  |-> Truthy(preg[1]),
          has_nursing   |-> Truthy(nurs[1]),
          src_ids       |-> IF DOMAIN ids = {} THEN JsonNull ELSE ids ]

RowDocs ==
    { XmlNone, XmlEmpty, XmlMalformed,
      Xml(SectionDoc),
      Xml(Sec(PI_NS, "Doc", <<>>, None,
              <<Sec(PI_NS, "Nursing", [id |-> <<>>], <<SP>>, <<>>)>>)),
      Xml(Nested) }

SourceTables ==
    {[k \in 1..Len(docs) |-> [key |-> k, doc_xml |-> docs[k]]] :
        docs \in SeqsUpTo(RowDocs, MaxRows)}

InitScan ==
    /\ pc = "scan"
    /\ op = "main"
    /\ arg \in SourceTables
    /\ result = [batch |-> <<>>, table |-> <<>>]
    /\ tables = StaticTables
    /\ memo = <<>>
    /\ calls = 0

\* One turn of the loop "for row in scan".  An exception of a call leaves
\* the loop and main: the pending batch is not written.
ScanRow ==
    /\ pc = "scan"
    /\ calls < Len(arg)
    /\ LET row   == arg[calls + 1]
           preg  == extract_section_texts(row.doc_xml, PREGNANT_TAGS)
           nurs  == extract_section_texts(row.doc_xml, NURSING_TAGS)
           batch == Append(result.batch, women_row(row, preg, nurs))
       IN  IF preg = Raised \/ nurs = Raised
           THEN pc' = "raised" /\ UNCHANGED result
           ELSE /\ pc' = "scan"
                /\ result' = IF Len(batch) >= BATCH_SIZE
                             THEN [batch |-> <<>>, table |-> result.table \o batch]
                             ELSE [batch |-> batch, table |-> result.table]
    /\ calls' = calls + 1
    /\ UNCHANGED <<op, arg, tables, memo>>

\* The scan is exhausted: the rest of the batch is written.
ScanEnd ==
    /\ pc = "scan"
    /\ calls = Len(arg)
    /\ pc' = "done"
    /\ result' = [batch |-> <<>>, table |-> result.table \o result.batch]
    /\ UNCHANGED <<op, arg, tables, memo, calls>>

NextScan == ScanRow \/ ScanEnd

SpecScan == InitScan /\ [][NextScan]_vars

\* The rows produced so far, written or pending, in scan order.
Produced == result.table \o result.batch

\* The destination row that the scan of the one-row table <<row>> produces.
RowAlone(row) ==
    women_row(row, extract_section_texts(row.doc_xml, PREGNANT_TAGS),
                   extract_section_texts(row.doc_xml, NURSING_TAGS))

\* C15: the scan never ends by an exception; a row whose XML is absent, empty
\* or unparsable yields absent texts and no source ids; every scanned row
\* yields exactly what it yields when scanned alone, whatever the other rows
\* are, and when the scan is done every source row has its destination row.
C15_NeverRaises ==
    /\ pc \in {"scan", "done"}
    /\ Len(Produced) = calls
    /\ \A k \in 1..Len(Produced) :
          /\ Produced[k] = RowAlone(arg[k])
          /\ arg[k].doc_xml.kind # "xml" =>
                /\ Produced[k].pregnant_text = None
                /\ Produced[k].nursing_text = None
                /\ ~Produced[k].has_pregnant /\ ~Produced[k].has_nursing
                /\ Produced[k].src_ids = JsonNull
    /\ pc = "done" => (Len(result.table) = Len(arg) /\ result.batch = <<>>)

\* An unparsable row between two documents: the scan is done and the third
\* row has its pregnancy text and id.
C15_Witness ==
    /\ pc = "done"
    /\ Len(arg) = 3
    /\ arg[1].doc_xml = Xml(Nested)
    /\ arg[2].doc_xml = XmlMalformed
    /\ arg[3].doc_xml = Xml(SectionDoc)
    /\ result.table[2].pregnant_text = None
    /\ result.table[3].pregnant_text = <<"a", SP, "b", NL, NL, "c">>
    /\ result.table[3].src_ids = ("pregnant" :> <<"p", "1">>)

----------------------------------------------------------------------------
(* classify on its own: texts of at most MaxPhrases phrases of Phrases,    *)
(* and None, against both rule tables, as they are in the module and empty.*)

MaxPhrases == 2

Phrases ==
    { <<SP>>, <<NL>>, <<ZSP, TAB>>, <<"x">>,
      <<"KINKI">>,
      <<"TOUYO", "SHINAI", "KOTO">>,
      <<"ga", "NOZOMASHII">>,
      <<"GENSOKU">>,
      <<"SHIYOU", "wo", "SAKERU">>,
      <<"YUUEKISEI", "ga", "KIKENSEI", "wo", "UWAMAWARU_KANA">>,
      <<"SHINCHOU", "ni", "TOUYO">>,
      <<"YUUEKISEI", "wo", "KOURYO">>,
      <<"JU", "NYUU", "no", "KEIZOKU", "wo", "KENTOU">>,
      <<"JU", "NYUU">>,
      <<"CHUUSHI">>,
      <<"DAN", "NYUU">>,
      <<"BO", "NYUU">>,
      <<"IKOU">> }

Texts == {Flatten(ps) : ps \in SeqsUpTo(Phrases, MaxPhrases)} \cup {None}

EmptyTables ==
    [PREG_RULES |-> <<>>, NURS_RULES |-> <<>>,
     PREG_EVIDENCE_RX |-> <<>>, NURS_EVIDENCE_RX |-> <<>>]

ClassifyInputs == {[text |-> t, rules |-> r] : t \in Texts, r \in {"PREG_RULES", "NURS_RULES"}}

InitClassify ==
    /\ pc = "call"
    /\ op = "classify"
    /\ arg \in ClassifyInputs
    /\ result = None
    /\ tables \in {StaticTables, EmptyTables}
    /\ memo = <<>>
    /\ calls = 0

NextClassify == Call_classify

SpecClassify == InitClassify /\ [][NextClassify]_vars

\* Absent, empty or whitespace only.
NoText(t) == t = None \/ \A i \in 1..Len(t) : t[i] \in WS

\* The text as the patterns see it.
Seen(t) == normalize_for_match(t)

\* The rules of a table that match a text.
MatchingRules(t, rules) == {k \in 1..Len(rules) : search(rules[k].rx, Seen(t))}

\* C16: (0, "none") for absent, empty or whitespace-only text, (0, "unclear")
\* for any other text that no rule of the table matches, else the score and
\* tag of a rule of the table; with the static tables the score is one of
\* 0, 1, 2, 3.
C16_Defaults ==
    pc = "classify" =>
        LET rules == tables[arg.rules]
        IN  /\ NoText(arg.text) => result = <<0, "none">>
            /\ (~NoText(arg.text) /\ MatchingRules(arg.text, rules) = {}) =>
                   result = <<0, "unclear">>
            /\ (~NoText(arg.text) /\ MatchingRules(arg.text, rules) # {}) =>
                   \E k \in 1..Len(rules) : result = <<rules[k].score, rules[k].tag>>
            /\ tables = StaticTables => result[1] \in {0, 1, 2, 3}

\* A text with words but no pattern of the pregnancy table: "unclear".
C16_Witness ==
    /\ pc = "classify"
    /\ tables = StaticTables
    /\ arg = [text |-> <<"x", "DAN", "NYUU">>, rules |-> "PREG_RULES"]
    /\ result = <<0, "unclear">>

----------------------------------------------------------------------------
(* classify and extract_flags under every table configuration: the tables  *)
(* as the module builds them, empty tables, and tables left unset (None).  *)

UnsetTables ==
    [PREG_RULES |-> UnsetTable, NURS_RULES |-> UnsetTable,
     PREG_EVIDENCE_RX |-> UnsetDict, NURS_EVIDENCE_RX |-> UnsetDict]

FlagsInputs ==
    {[text |-> t, rx_dict |-> d] : t \in Texts, d \in {"PREG_EVIDENCE_RX", "NURS_EVIDENCE_RX"}}

InitMisconfig ==
    /\ pc = "call"
    /\ \/ op = "classify" /\ arg \in ClassifyInputs
       \/ op = "extract_flags" /\ arg \in FlagsInputs
    /\ result = None
    /\ tables \in {StaticTables, EmptyTables, UnsetTables}
    /\ memo = <<>>
    /\ calls = 0

NextMisconfig == Call_classify \/ Call_extract_flags

SpecMisconfig == InitMisconfig /\ [][NextMisconfig]_vars

\* C17: classify and extract_flags never raise; with an absent or blank text,
\* and with an unset or empty table or dictionary and any text, classify
\* returns (0, "none") or (0, "unclear") and extract_flags returns a mapping.
C17_NeverFails ==
    /\ pc = "classify" =>
           /\ result # Raised
           /\ (NoText(arg.text) \/ tables # StaticTables) =>
                  result \in {<<0, "none">>, <<0, "unclear">>}
    /\ pc = "extract_flags" => result # RaisedMapping

\* C18: the result is the score and tag of the first rule, in table order,
\* whose pattern matches the normalized text; the scores of each table descend
\* strictly, so the score returned is the largest score of a matching rule.
C18_FirstMatch ==
    pc = "classify" =>
        LET rules == tables[arg.rules]
        IN  /\ \A i, j \in 1..Len(rules) : i < j => rules[i].score > rules[j].score
            /\ ~NoText(arg.text) =>
                   LET m == MatchingRules(arg.text, rules)
                   IN  m # {} =>
                           \E k \in m :
                               /\ \A j \in m : k <= j
                               /\ result = <<rules[k].score, rules[k].tag>>
                               /\ \A j \in m : result[1] >= rules[j].score

\* A pregnancy text with a score-1 phrase before a score-3 phrase is classified 3.
C18_Witness ==
    /\ pc = "classify"
    /\ tables = StaticTables
    /\ arg = [text |-> <<"SHINCHOU", "ni", "TOUYO", "KINKI">>, rules |-> "PREG_RULES"]
    /\ MatchingRules(arg.text, PREG_RULES) = {1, 3}
    /\ result = <<3, "contraindicated">>

----------------------------------------------------------------------------
(* extract_flags on its own: texts of at most MaxPhrases phrases of        *)
(* FlagPhrases, and None, against both evidence dictionaries, against      *)
(* empty dictionaries, and against a dictionary whose patterns tell a text *)
(* from its normalized form (a line feed, a spelling normalize_for_match   *)
(* rewrites).                                                              *)

FlagPhrases ==
    { <<SP>>, <<NL>>, <<ZSP>>, <<"x">>,
      <<"BO", "NYUU">>, <<"IKOU">>, <<"IKOU", "SHINAI">>,
      <<"NYUU", "JI_K">>, <<"GERI">>, <<"DAN", "NYUU">>,
      <<"HITO">>, <<"RAT">>, <<"KIKEI">>, <<"SAI", "KIKEI">>,
      <<"SHINSEIJI">>, <<"CHINSEI">>,
      <<"NINSHIN", "FW1", NL>>, <<"GETSU">>,
      <<"MICHI">>, <<"UWAMAWARU_KANA">> }

FlagTexts == {Flatten(ps) : ps \in SeqsUpTo(FlagPhrases, MaxPhrases)} \cup {None}

RawFormRx == [line_feed |-> <<W(NL)>>, kana_spelling |-> <<W("UWAMAWARU_KANA")>>]

RawFormTables ==
    [StaticTables EXCEPT !.PREG_EVIDENCE_RX = RawFormRx, !.NURS_EVIDENCE_RX = RawFormRx]

InitFlags ==
    /\ pc = "call"
    /\ op = "extract_flags"
    /\ arg \in {[text |-> t, rx_dict |-> d] :
                    t \in FlagTexts, d \in {"PREG_EVIDENCE_RX", "NURS_EVIDENCE_RX"}}
    /\ result = None
    /\ tables \in {StaticTables, EmptyTables, RawFormTables}
    /\ memo = <<>>
    /\ calls = 0

NextFlags == Call_extract_flags

SpecFlags == InitFlags /\ [][NextFlags]_vars

\* C19: the empty mapping for absent, empty or whitespace-only text; for any
\* other text a mapping with exactly the keys of the pattern dictionary, each
\* flag true exactly when its own pattern matches the text as it was given.
C19_FlagPerPattern ==
    pc = "extract_flags" =>
        LET rx_dict == tables[arg.rx_dict]
        IN  /\ NoText(arg.text) => result = <<>>
            /\ ~NoText(arg.text) =>
                   /\ DOMAIN result = DOMAIN rx_dict
                   /\ \A k \in DOMAIN rx_dict : result[k] = search(rx_dict[k], arg.text)

\* A nursing text with two flags set and four clear, classified or not.
C19_Witness ==
    /\ pc = "extract_flags"
    /\ tables = StaticTables
    /\ arg = [text |-> <<"BO", "NYUU", "IKOU", "SHINAI">>, rx_dict |-> "NURS_EVIDENCE_RX"]
    /\ result = [milk_transfer_detected |-> TRUE,
                 milk_transfer_not_detected |-> TRUE,
                 adverse_infant_effects |-> FALSE,
                 recommend_stop_lactation |-> FALSE,
                 recommend_consideration |-> FALSE,
                 pumping_discard |-> FALSE]

----------------------------------------------------------------------------
(* 32_label_women_risk main: every row of sgml_women is classified,        *)
(* flagged and given its confidence values; the update of sgml_women and   *)
(* the label row are written in batches.                                   *)

MaxRiskRows == 2

\* BATCH_SIZE of 32_label_women_risk (1000 by default), small here.
LABEL_BATCH_SIZE == 2

\* row["pregnant_text"] or ""
or_empty(text) == IF text = None THEN <<>> ELSE text

\* flags.get(key) as a condition: a missing key gives None, which is false.
flag_get(flags, key) == key \in DOMAIN flags /\ flags[key]

\* 3 if score==3 else 2 if score==2 else 1 if score==1 else 0
score_strength(score) ==
    IF score = 3 THEN 3 ELSE IF score = 2 THEN 2 ELSE IF score = 1 THEN 1 ELSE 0

\* min(3, x)
min3(x) == IF x < 3 THEN x ELSE 3

\* A plausible slip: the sum is not capped.
preg_conf_uncapped(p_score, preg_flags) ==
    score_strength(p_score)
        + (IF flag_get(preg_flags, "has_human_terato") THEN 1 ELSE 0)
        + (IF flag_get(preg_flags, "has_animal_terato") THEN 1 ELSE 0)

preg_conf(p_score, preg_flags) ==
    min3(score_strength(p_score)
            + (IF flag_get(preg_flags, "has_human_terato") THEN 1 ELSE 0)
            + (IF flag_get(preg_flags, "has_animal_terato") THEN 1 ELSE 0))

nurs_conf(n_score, nurs_flags) ==
    min3(score_strength(n_score)
            + (IF flag_get(nurs_flags, "milk_transfer_detected") THEN 1 ELSE 0)
            + (IF flag_get(nurs_flags, "adverse_infant_effects") THEN 1 ELSE 0))

\* {**flags, "confidence": conf}
with_confidence(flags, conf) ==
    [k \in DOMAIN flags \cup {"confidence"} |-> IF k = "confidence" THEN conf ELSE flags[k]]

\* {3: "D/X", 2: "C", 1: "B", 0: FUMEI}.get(score, FUMEI)
tora_label_preg(score) ==
    IF score = 3 THEN "D/X" ELSE IF score = 2 THEN "C" ELSE IF score = 1 THEN "B" ELSE "FUMEI"

\* {3: JUNYUU CHUUSHI, 2: YUUEKISEI KOURYO, 1: JOUHOU TEIKYOU, 0: FUMEI}.get(score, FUMEI)
tora_label_nurs(score) ==
    IF score = 3 THEN "JUNYUU_CHUUSHI"
    ELSE IF score = 2 THEN "YUUEKISEI_KOURYO"
    ELSE IF score = 1 THEN "JOUHOU_TEIKYOU"
    ELSE "FUMEI"

\* A plausible slip: the pregnancy score alone.
max2_first(a, b) == a

\* max(a, b)
max2(a, b) == IF a >= b THEN a ELSE b

\* What one turn of the loop appends to batch_update_src and to
\* batch_upsert_dest for a row.
label_row(row) ==
    LET ptx        == or_empty(row.pregnant_text)
        ntx        == or_empty(row.nursing_text)
        p          == classify(ptx, PREG_RULES)
        n          == classify(ntx, NURS_RULES)
        overall    == max2(p[1], n[1])
        preg_flags == extract_flags(ptx, PREG_EVIDENCE_RX)
        nurs_flags == extract_flags(ntx, NURS_EVIDENCE_RX)
        evidence   == [pregnant_rule |-> p[2],
                       nursing_rule  |-> n[2],
                       preg |-> with_confidence(preg_flags, preg_conf(p[1], preg_flags)),
                       nurs |-> with_confidence(nurs_flags, nurs_conf(n[1], nurs_flags))]
    IN  [update_src |->
             [package_insert_no |-> row.package_insert_no,
              yj_code           |-> row.yj_code,
              pregnant_score    |-> p[1],
              pregnant_rule     |-> p[2],
              nursing_score     |-> n[1],
              nursing_rule      |-> n[2],
              overall_score     |-> overall,
              pregnant_evidence |-> preg_flags,
              nursing_evidence  |-> nurs_flags],
         upsert_dest |->
             [package_insert_no |-> row.package_insert_no,
              yj_code           |-> row.yj_code,
              scheme            |-> "toranomon",
              pregnant_label    |-> tora_label_preg(p[1]),
              nursing_label     |-> tora_label_nurs(n[1]),
              pregnant_score    |-> p[1],
              nursing_score     |-> n[1],
              evidence_json     |-> evidence]]

\* The section texts of the rows scanned: one pair per combination of score
\* and boost flags that the tables allow.
HumanTerato  == <<"HITO", "KIKEI">>
AnimalTerato == <<"RAT", "SAI", "KIKEI">>
MilkTransfer == <<"BO", "NYUU", "IKOU">>
InfantEffect == <<"NYUU", "JI_K", "GERI">>

SectionTexts ==
    << [pregnant_text |-> None, nursing_text |-> None],
       [pregnant_text |-> <<>>, nursing_text |-> <<SP>>],
       [pregnant_text |-> <<"x">>, nursing_text |-> <<"x">>],
       [pregnant_text |-> HumanTerato, nursing_text |-> InfantEffect],
       [pregnant_text |-> HumanTerato \o AnimalTerato, nursing_text |-> MilkTransfer],
       [pregnant_text |-> <<"SHINCHOU", "ni", "TOUYO">>,
        nursing_text  |-> MilkTransfer \o InfantEffect],
       [pregnant_text |-> <<"SHINCHOU", "ni", "TOUYO">> \o AnimalTerato,
        nursing_text  |-> <<"YUUEKISEI", "wo", "KOURYO", "JU", "NYUU", "no", "KEIZOKU",
                            "wo", "KENTOU">>],
       [pregnant_text |-> <<"SHINCHOU", "ni", "TOUYO">> \o HumanTerato \o AnimalTerato,
        nursing_text  |-> <<"YUUEKISEI", "wo", "KOURYO", "JU", "NYUU", "no", "KEIZOKU",
                            "wo", "KENTOU">> \o InfantEffect],
       [pregnant_text |-> <<"GENSOKU", "TOUYO", "SHINAI">>,
        nursing_text  |-> <<"YUUEKISEI", "wo", "KOURYO", "JU", "NYUU", "no", "KEIZOKU",
                            "wo", "KENTOU">> \o MilkTransfer \o InfantEffect],
       [pregnant_text |-> <<"GENSOKU", "TOUYO", "SHINAI">> \o HumanTerato \o AnimalTerato,
        nursing_text  |-> <<"DAN", "NYUU">>],
       [pregnant_text |-> <<"KINKI">>, nursing_text |-> <<"DAN", "NYUU">> \o InfantEffect],
       [pregnant_text |-> <<"KINKI">> \o HumanTerato,
        nursing_text  |-> <<"DAN", "NYUU">> \o MilkTransfer \o InfantEffect],
       [pregnant_text |-> <<"KINKI">> \o HumanTerato \o AnimalTerato,
        nursing_text  |-> None] >>

\* The longest table scanned: with LABEL_BATCH_SIZE = 2, two full batches and
\* a rest.
MaxScanRows == 5

\* sgml_women in key order: row i has the key (i, i) and the texts of
\* SectionTexts[f[i]].
WomenTable(n, f) ==
    [i \in 1..n |-> [package_insert_no |-> i, yj_code |-> i,
                     pregnant_text |-> SectionTexts[f[i]].pregnant_text,
                     nursing_text  |-> SectionTexts[f[i]].nursing_text]]

\* Every table of up to MaxRiskRows rows, and the longer tables up to
\* MaxScanRows rows whose rows are consecutive entries of SectionTexts.
WomenTables ==
    UNION {{WomenTable(n, f) : f \in [1..n -> 1..Len(SectionTexts)]} : n \in 0..MaxRiskRows}
    \cup {WomenTable(n, [i \in 1..n |-> ((s + i - 2) % Len(SectionTexts)) + 1]) :
              n \in (MaxRiskRows + 1)..MaxScanRows, s \in 1..Len(SectionTexts)}

InitRisk ==
    /\ pc = "label"
    /\ op = "main"
    /\ arg \in WomenTables
    /\ result = [batch_update_src |-> <<>>, batch_upsert_dest |-> <<>>,
                 updated |-> <<>>, upserted |-> <<>>,
                 updated_src |-> 0, upserted_dest |-> 0]
    /\ tables = StaticTables
    /\ memo = <<>>
    /\ calls = 0

\* The UPDATE of sgml_women from batch_update_src, committed; the counter is
\* raised and the batch cleared.
update_src(r) ==
    [r EXCEPT !.updated          = @ \o r.batch_update_src,
              !.updated_src      = @ + Len(r.batch_update_src),
              !.batch_update_src = <<>>]

\* The UPSERT of the label table from batch_upsert_dest, committed; the
\* counter is raised and the batch cleared.
upsert_dest(r) ==
    [r EXCEPT !.upserted          = @ \o r.batch_upsert_dest,
              !.upserted_dest     = @ + Len(r.batch_upsert_dest),
              !.batch_upsert_dest = <<>>]

\* The loop of main is taken statement by statement wherever a batch changes
\* or a transaction is committed: the two appends of a turn, the two
\* transactions of a full batch within the turn, and the two transactions of
\* the rest after the scan.

\* A turn of the loop "for row in scan" up to the first append: the row is
\* scored and its update is appended to batch_update_src; calls is the
\* counter total.
LabelRow ==
    /\ pc = "label"
    /\ calls < Len(arg)
    /\ pc' = "append_dest"
    /\ result' = [result EXCEPT
                      !.batch_update_src = Append(@, label_row(arg[calls + 1]).update_src)]
    /\ calls' = calls + 1
    /\ UNCHANGED <<op, arg, tables, memo>>

\* The same turn, second append: the label row is appended to
\* batch_upsert_dest, and the batch size is tested; below BATCH_SIZE the turn
\* is over.
LabelAppendDest ==
    /\ pc = "append_dest"
    /\ pc' = IF Len(result.batch_update_src) >= LABEL_BATCH_SIZE
             THEN "update_src" ELSE "label"
    /\ result' = [result EXCEPT
                      !.batch_upsert_dest = Append(@, label_row(arg[calls]).upsert_dest)]
    /\ UNCHANGED <<op, arg, tables, memo, calls>>

\* The same turn with a full batch, first transaction: sgml_women is updated
\* and committed.
FlushUpdateSrc ==
    /\ pc = "update_src"
    /\ pc' = "upsert_dest"
    /\ result' = update_src(result)
    /\ UNCHANGED <<op, arg, tables, memo, calls>>

\* The same turn, second transaction: the label rows are upserted and
\* committed, and the turn is over.
FlushUpsertDest ==
    /\ pc = "upsert_dest"
    /\ pc' = "label"
    /\ result' = upsert_dest(result)
    /\ UNCHANGED <<op, arg, tables, memo, calls>>

\* The scan is exhausted: what is left of batch_update_src is written and
\* committed.
LabelEnd ==
    /\ pc = "label"
    /\ calls = Len(arg)
    /\ pc' = "upsert_rest"
    /\ result' = IF result.batch_update_src # <<>> THEN update_src(result) ELSE result
    /\ UNCHANGED <<op, arg, tables, memo, calls>>

\* Then what is left of batch_upsert_dest is written and committed.
LabelEndUpsert ==
    /\ pc = "upsert_rest"
    /\ pc' = "labelled"
    /\ result' = IF result.batch_upsert_dest # <<>> THEN upsert_dest(result) ELSE result
    /\ UNCHANGED <<op, arg, tables, memo, calls>>

\* A statement or a commit of a write raises: nothing of that transaction is
\* kept, what was committed before stays, and main ends with the exception.
LabelRaises ==
    /\ \/ pc \in {"update_src", "upsert_dest"}
       \/ pc = "label" /\ calls = Len(arg) /\ result.batch_update_src # <<>>
       \/ pc = "upsert_rest" /\ result.batch_upsert_dest # <<>>
    /\ pc' = "label_raised"
    /\ UNCHANGED <<op, arg, result, tables, memo, calls>>

\* The positions of main of 32_label_women_risk.
LabelStates == {"label", "append_dest", "update_src", "upsert_dest", "upsert_rest",
                "labelled", "label_raised"}

NextRisk ==
    \/ LabelRow
    \/ LabelAppendDest
    \/ FlushUpdateSrc
    \/ FlushUpsertDest
    \/ LabelEnd
    \/ LabelEndUpsert
    \/ LabelRaises

SpecRisk == InitRisk /\ [][NextRisk]_vars

\* The label rows produced so far, written or pending.
LabelRows == result.upserted \o result.batch_upsert_dest

\* A score clamped into [0, 3].
Clamped(score) == IF score < 0 THEN 0 ELSE IF score > 3 THEN 3 ELSE score

\* The number of boost keys present and true in a flag mapping.
Boosts(flags, boostKeys) ==
    Cardinality({k \in boostKeys : k \in DOMAIN flags /\ flags[k] = TRUE})

\* The confidence, the clamped score and the boosts agree.
ConfidenceRule(conf, score, flags, boostKeys) ==
    /\ conf \in 0..3
    /\ conf >= Clamped(score)
    /\ \/ conf = Clamped(score) + Boosts(flags, boostKeys)
       \/ conf = 3 /\ Clamped(score) + Boosts(flags, boostKeys) > 3

\* C20: each confidence of a label row is min(3, clamped score + number of its
\* two boost flags that are present and true), an integer in 0..3 that is never
\* below the clamped score.
C20_Confidence ==
    pc \in LabelStates =>
        \A i \in 1..Len(LabelRows) :
            LET e == LabelRows[i]
            IN  /\ ConfidenceRule(e.evidence_json.preg.confidence, e.pregnant_score,
                                  e.evidence_json.preg,
                                  {"has_human_terato", "has_animal_terato"})
                /\ ConfidenceRule(e.evidence_json.nurs.confidence, e.nursing_score,
                                  e.evidence_json.nurs,
                                  {"milk_transfer_detected", "adverse_infant_effects"})

\* Score 3 with both boost flags true gives confidence 3, and a row without
\* texts gives confidence 0 from an empty flag mapping.
C20_Witness ==
    /\ pc = "labelled"
    /\ \E i \in 1..Len(LabelRows) :
           LET e == LabelRows[i]
           IN  /\ e.pregnant_score = 3
               /\ e.evidence_json.preg.has_human_terato
               /\ e.evidence_json.preg.has_animal_terato
               /\ e.evidence_json.preg.confidence = 3
               /\ DOMAIN e.evidence_json.nurs = {"confidence"}
               /\ e.evidence_json.nurs.confidence = 0

\* The updates of sgml_women produced so far, written or pending.
UpdateRows == result.updated \o result.batch_update_src

\* C21: the overall score written back for a row is the larger of the
\* pregnancy score and the nursing score of that same row, so it is 0 exactly
\* when both are 0.
C21_OverallIsMax ==
    pc \in LabelStates =>
        \A i \in 1..Len(UpdateRows) :
            LET u == UpdateRows[i]
                p == classify(or_empty(arg[i].pregnant_text), PREG_RULES)[1]
                n == classify(or_empty(arg[i].nursing_text), NURS_RULES)[1]
            IN  /\ u.package_insert_no = arg[i].package_insert_no
                /\ u.yj_code = arg[i].yj_code
                /\ u.pregnant_score = p
                /\ u.nursing_score = n
                /\ u.overall_score \in {p, n}
                /\ u.overall_score >= p
                /\ u.overall_score >= n
                /\ (u.overall_score = 0) <=> (p = 0 /\ n = 0)

\* A row whose nursing score is above its pregnancy score follows a row whose
\* scores are both 0.
C21_Witness ==
    /\ pc = "labelled"
    /\ Len(UpdateRows) = 2
    /\ UpdateRows[1].pregnant_score = 0
    /\ UpdateRows[1].nursing_score = 0
    /\ UpdateRows[1].overall_score = 0
    /\ UpdateRows[2].pregnant_score = 1
    /\ UpdateRows[2].nursing_score = 2
    /\ UpdateRows[2].overall_score = 2

\* C22: a label returned by normalize_partner_label is never exactly one of
\* the noise tokens.
C22_NeverBareNoise ==
    pc = "normalize_partner_label" => result \notin {NOISE_TOU, NOISE_NADO}

----------------------------------------------------------------------------
(* 22_build_sgml_interaction: build_interaction_rows on the column         *)
(* interactions_flat.  A value of the column is a JSON value: null, a      *)
(* number, a string, an object or a list of values.                        *)

JsonNumber(n)    == [kind |-> "number", n |-> n]
JsonString(text) == [kind |-> "str", text |-> text]
JsonDict(d)      == [kind |-> "dict", d |-> d]
JsonList(items)  == [kind |-> "list", items |-> items]

\* The tokens of a JSON text: brackets, the comma, a number literal, the text
\* of an object, and a character that starts no JSON value.
Tok(c)    == [tok |-> c]
NumTok(n) == [tok |-> "number", n |-> n]
ObjTok(d) == [tok |-> "object", d |-> d]

IsValueTok(t) == t.tok \in {"number", "object"}

ValueOfTok(t) == IF t.tok = "number" THEN JsonNumber(t.n) ELSE JsonDict(t.d)

\* The decoder at position i of a token sequence: the value that starts there
\* and the position after it, or ParseError.  A value is a number, an object,
\* or a list of values separated by commas between brackets.
RECURSIVE json_value(_, _), json_items(_, _, _)
json_value(text, i) ==
    IF i > Len(text) THEN ParseError
    ELSE IF IsValueTok(text[i]) THEN [value |-> ValueOfTok(text[i]), end |-> i + 1]
    ELSE IF text[i] # Tok("[") THEN ParseError
    ELSE IF i + 1 <= Len(text) /\ text[i + 1] = Tok("]")
    THEN [value |-> JsonList(<<>>), end |-> i + 2]
    ELSE json_items(text, i + 1, <<>>)

\* The items of a list from position i on, after the items already read.
json_items(text, i, items) ==
    LET v == json_value(text, i)
    IN  IF v = ParseError THEN ParseError
        ELSE IF v.end > Len(text) THEN ParseError
        ELSE IF text[v.end] = Tok("]")
        THEN [value |-> JsonList(Append(items, v.value)), end |-> v.end + 1]
        ELSE IF text[v.end] = Tok(",")
        THEN json_items(text, v.end + 1, Append(items, v.value))
        ELSE ParseError

\* json.loads on a token sequence: the one value the whole text holds;
\* no value, or tokens after the value, raises.
json_loads(text) ==
    LET v == json_value(text, 1)
    IN  IF v = ParseError THEN ParseError
        ELSE IF v.end # Len(text) + 1 THEN ParseError
        ELSE v.value

\* not inter_flat
JsonFalsy(v) ==
    \/ v = JsonNull
    \/ v.kind = "number" /\ v.n = 0
    \/ v.kind = "str" /\ v.text = <<>>
    \/ v.kind = "dict" /\ DOMAIN v.d = {}
    \/ v.kind = "list" /\ v.items = <<>>

\* item.get(key)
dict_get(d, key) == IF key \in DOMAIN d THEN d[key] ELSE None

\* What the loop of build_interaction_rows appends for one item.
rows_of_item(pkg, yj, item) ==
    IF item = JsonNull \/ item.kind # "dict" THEN <<>>
    ELSE LET section_type  == dict_get(item.d, "category")
             partner_name  == dict_get(item.d, "partner")
             symptoms      == dict_get(item.d, "symptoms")
             mechanism     == dict_get(item.d, "mechanism")
             partner_group == dict_get(item.d, "group")
         IN  IF ~(Truthy(partner_name) \/ Truthy(partner_group)
                    \/ Truthy(symptoms) \/ Truthy(mechanism))
             THEN <<>>
             ELSE << [package_insert_no    |-> pkg,
                      yj_code              |-> yj,
                      section_type         |-> section_type,
                      partner_group_ja     |-> partner_group,
                      partner_name_ja      |-> partner_name,
                      symptoms_measures_ja |-> symptoms,
                      mechanism_ja         |-> mechanism] >>

\* A plausible slip: an item without symptoms and mechanism counts as empty.
rows_of_item_needsDetail(pkg, yj, item) ==
    IF item = JsonNull \/ item.kind # "dict" THEN <<>>
    ELSE IF ~(Truthy(dict_get(item.d, "symptoms")) \/ Truthy(dict_get(item.d, "mechanism")))
    THEN <<>>
    ELSE rows_of_item(pkg, yj, item)

build_interaction_rows_needsDetail(pkg, yj, inter_flat) ==
    IF JsonFalsy(inter_flat) THEN <<>>
    ELSE LET v == IF inter_flat.kind = "str" THEN json_loads(inter_flat.text) ELSE inter_flat
         IN  IF v = ParseError THEN <<>>
             ELSE IF v = JsonNull \/ v.kind # "list" THEN <<>>
             ELSE Flatten([i \in 1..Len(v.items) |-> rows_of_item_needsDetail(pkg, yj, v.items[i])])

build_interaction_rows(pkg, yj, inter_flat) ==
    IF JsonFalsy(inter_flat) THEN <<>>
    ELSE LET v == IF inter_flat.kind = "str" THEN json_loads(inter_flat.text) ELSE inter_flat
         IN  IF v = ParseError THEN <<>>
             ELSE IF v = JsonNull \/ v.kind # "list" THEN <<>>
             ELSE Flatten([i \in 1..Len(v.items) |-> rows_of_item(pkg, yj, v.items[i])])

\* The record list of a document as the column holds it.
FlatColumn(flat) == JsonList([i \in 1..Len(flat) |-> JsonDict(flat[i])])

FlatsOfDocuments == {FlatColumn(collect_interactions_flat(d).flat) : d \in DocumentInputs}

RecordGA == InteractionRecord(<<"A">>, <<"G">>, <<(<<"s">>), None>>, HEIYO_KINKI)

\* Values of the column that are no record list of a document.
OtherColumns ==
    { JsonNull,
      JsonNumber(0),
      JsonNumber(5),
      JsonDict(RecordGA),
      JsonString(<<>>),
      JsonString(<<Tok("[")>>),
      JsonString(<<Tok("x")>>),
      JsonString(<<Tok("["), ObjTok(RecordGA), Tok(","), Tok("]")>>),
      JsonString(<<NumTok(5)>>),
      JsonString(<<Tok("["), Tok("]")>>),
      JsonString(<<Tok("["), ObjTok(RecordGA), Tok(","), NumTok(5), Tok("]")>>),
      JsonString(<<Tok("["), Tok("["), Tok("]"), Tok("]")>>),
      JsonString(<<Tok("["), Tok("["), ObjTok(RecordGA), Tok("]"), Tok("]")>>),
      JsonString(<<Tok("["), ObjTok(RecordGA), Tok(","), Tok("["), Tok("]"), Tok("]")>>),
      JsonString(<<Tok("["), Tok("["), NumTok(5), Tok("]"), Tok(","),
                   ObjTok([mechanism |-> <<"m">>]), Tok("]")>>),
      JsonString(<<Tok("["), Tok("]"), Tok("]")>>),
      JsonString(<<Tok("["), Tok("["), Tok("]")>>),
      JsonList(<< JsonNumber(5),
                  JsonDict([partner |-> None, group |-> None, symptoms |-> <<>>,
                            mechanism |-> None, category |-> HEIYO_CHUI]),
                  JsonNull,
                  JsonDict([mechanism |-> <<"m">>]) >>) }

RowsInputs ==
    {[pkg |-> p, yj |-> y, inter_flat |-> f] :
        p \in {"P1", "P2"}, y \in {"", "Y1"}, f \in FlatsOfDocuments \cup OtherColumns}

InitRows ==
    /\ pc = "call"
    /\ op = "build_interaction_rows"
    /\ arg \in RowsInputs
    /\ result = None
    /\ tables = StaticTables
    /\ memo = <<>>
    /\ calls = 0

Call_build_interaction_rows ==
    /\ pc = "call"
    /\ op = "build_interaction_rows"
    /\ pc' = "build_interaction_rows"
    /\ result' = build_interaction_rows(arg.pkg, arg.yj, arg.inter_flat)
    /\ memo' = Remember(memo, <<op, arg>>, result')
    /\ calls' = calls + 1
    /\ UNCHANGED <<op, arg, tables>>

NextRows == Call_build_interaction_rows

SpecRows == InitRows /\ [][NextRows]_vars

\* The column holds no list: null, a number, an object, or a string that is
\* no JSON text or the text of a value that is no list.
NoList(v) ==
    \/ v = JsonNull
    \/ v.kind \in {"number", "dict"}
    \/ v.kind = "str" /\ (json_loads(v.text) = ParseError \/ json_loads(v.text).kind # "list")

\* C23: every record of a document's flat list has a non-empty partner, and
\* build_interaction_rows turns that list into one row per record, in order,
\* with the record's fields under the column names and the given key on every
\* row; a value that is no list, or a text that cannot be parsed, gives no row.
C23_OneRowPerRecord ==
    pc = "build_interaction_rows" =>
        /\ arg.inter_flat \in FlatsOfDocuments =>
               LET items == arg.inter_flat.items
               IN  /\ \A i \in 1..Len(items) :
                          items[i].d.partner # None /\ Len(items[i].d.partner) >= 1
                   /\ Len(result) = Len(items)
                   /\ \A i \in 1..Len(items) :
                          /\ result[i].package_insert_no = arg.pkg
                          /\ result[i].yj_code = arg.yj
                          /\ result[i].partner_name_ja = items[i].d.partner
                          /\ result[i].partner_group_ja = items[i].d.group
                          /\ result[i].section_type = items[i].d.category
                          /\ result[i].symptoms_measures_ja = items[i].d.symptoms
                          /\ result[i].mechanism_ja = items[i].d.mechanism
        /\ NoList(arg.inter_flat) => result = <<>>

\* A document with two categories: the first record has symptoms and a
\* mechanism, the last has neither, and each gives its row.
C23_Witness ==
    /\ pc = "build_interaction_rows"
    /\ arg.inter_flat \in FlatsOfDocuments
    /\ Len(result) = 3
    /\ result[1].section_type = HEIYO_KINKI
    /\ result[1].partner_name_ja = <<"A">>
    /\ result[1].partner_group_ja = <<"G">>
    /\ result[1].mechanism_ja = <<"m">>
    /\ result[3].section_type = HEIYO_CHUI
    /\ result[3].partner_name_ja = <<"C">>
    /\ result[3].partner_group_ja = None
    /\ result[3].symptoms_measures_ja = None
    /\ result[3].mechanism_ja = None

\* C24: the text returned by extract_section_texts is absent or holds a
\* character that is no whitespace; it is never empty or whitespace only.
C24_TextNeverBlank ==
    (pc = "extract_section_texts" /\ result # Raised) =>
        \/ result[1] = None
        \/ \E i \in 1..Len(result[1]) : result[1][i] \notin WS

----------------------------------------------------------------------------
(* 21_sgml2rawdata: parse_xml_to_rows and upsert_rows.  A file is a path   *)
(* and the XML text at that path; the table is a function from the primary *)
(* key (package_insert_no, yj_code) to the row stored under it.            *)

\* What parse_xml_to_rows yields when ET.parse raises: no row list.
RaisedRows == <<ParseError>>

\* The columns of a row that do not depend on the brand.
document_columns(root, xml_path) ==
    [ package_insert_no    |-> Or(get_text(root, <<"PackageInsertNo">>), <<>>),
      company_identifier   |-> get_text(root, <<"CompanyIdentifier">>),
      prepared_ym          |-> get_text(root, <<"DateOfPreparationOrRevision",
                                                "PreparationOrRevision", "YearMonth">>),
      generic_name_ja      |-> Or(text_ja(find(root, <<"GenericName", "Detail">>)),
                                  get_text(root, <<"GenericName">>)),
      therapeutic_class_ja |-> Or(text_ja(find(root, <<"TherapeuticClassification", "Detail">>)),
                                  get_text(root, <<"TherapeuticClassification">>)),
      approval_etc_json      |-> elem_to_json(find(root, <<"ApprovalEtc">>)),
      indications_json       |-> elem_to_json(find(root, <<"IndicationsOrEfficacy">>)),
      info_dose_admin_json   |-> elem_to_json(find(root, <<"InfoDoseAdmin">>)),
      interactions_json      |-> elem_to_json(find(root, <<"Interactions">>)),
      adverse_reactions_json |-> elem_to_json(find(root, <<"AdverseReactions">>)),
      composition_json       |-> elem_to_json(find(root, <<"Composition">>)),
      property_json          |-> elem_to_json(find(root, <<"Properties">>)),
      interactions_flat      |-> collect_interactions_flat(root).flat,
      doc_xml                |-> Xml(root),
      raw_xml_path           |-> xml_path ]

\* The columns of a document without DetailBrandName.
no_brand_columns ==
    [ yj_code |-> <<>>, brand_name_ja |-> None, brand_name_hiragana |-> None,
      trademark_en |-> None, standard_name_ja |-> None, approval_no |-> None,
      start_marketing |-> None ]

\* The columns taken from one DetailBrandName.
brand_columns(br) ==
    [ yj_code             |-> Or(get_text(br, <<"BrandCode", "YJCode">>), <<>>),
      brand_name_ja       |-> Or(text_ja(find(br, <<"ApprovalBrandName">>)),
                                 get_text(br, <<"ApprovalBrandName">>)),
      brand_name_hiragana |-> get_text(br, <<"BrandNameInHiragana", "NameInHiragana">>),
      trademark_en        |-> get_text(br, <<"TrademarkInEnglish", "TrademarkName">>),
      standard_name_ja    |-> Or(text_ja(find(br, <<"StandardName", "StandardNameCategory",
                                                    "StandardNameDetail">>)),
                                 get_text(br, <<"StandardName">>)),
      approval_no         |-> get_text(br, <<"ApprovalAndLicenseNo", "ApprovalNo">>),
      start_marketing     |-> get_text(br, <<"StartingDateOfMarketing">>) ]

\* One row per DetailBrandName, or one row without brand columns.
parse_xml_to_rows(file) ==
    IF fromstring(file.xml) = ParseError THEN RaisedRows
    ELSE LET root   == fromstring(file.xml)
             brands == findall(root, <<"ApprovalEtc", "DetailBrandName">>)
             own    == IF brands = <<>> THEN <<no_brand_columns>>
                       ELSE [i \in 1..Len(brands) |-> brand_columns(brands[i])]
         IN  [i \in 1..Len(own) |-> document_columns(root, file.path) @@ own[i]]

KeyOf(row) == <<row.package_insert_no, row.yj_code>>

\* INSERT ... ON CONFLICT (package_insert_no, yj_code) DO UPDATE, row by row.
RECURSIVE upsert_all(_, _)
upsert_all(table, rows) ==
    IF rows = <<>> THEN table
    ELSE LET row == Head(rows)
         IN  upsert_all([k \in DOMAIN table \cup {KeyOf(row)} |->
                             IF k = KeyOf(row) THEN row ELSE table[k]],
                        Tail(rows))

\* upsert_rows: the table afterwards and the count returned.
upsert_rows(table, rows) ==
    IF rows = <<>> THEN [table |-> table, inserted |-> 0]
    ELSE [table |-> upsert_all(table, rows), inserted |-> Len(rows)]

MaxBrands == 2

Leaf(name, text) == Elem(Q(name), <<>>, text, <<>>, None)

\* <DetailBrandName> with an approval name and, unless the code is None,
\* <BrandCode><YJCode>code</YJCode></BrandCode>
Brand(name, code) ==
    Elem(Q("DetailBrandName"), <<>>, None,
         <<name>> \o (IF code = None THEN <<>>
                      ELSE <<Elem(Q("BrandCode"), <<>>, None, <<Leaf("YJCode", code)>>, None)>>),
         None)

BrandPalette ==
    { Brand(Elem(Q("ApprovalBrandName"), <<>>, None, <<Lang(JA, <<"n", "1">>, <<>>)>>, None),
            <<"Y", "1">>),
      Brand(Leaf("ApprovalBrandName", <<"n", "2">>), <<"Y", "2">>),
      Brand(Leaf("ApprovalBrandName", <<"n", "3">>), None),
      Brand(Leaf("ApprovalBrandName", <<"n", "4">>), <<SP, "Y", "1">>),
      Brand(Leaf("ApprovalBrandName", <<"n", "5">>), <<SP>>) }

\* A package insert with or without its number and with the given brands.
PackageInsert(pkg, brands) ==
    Elem(Q("PackageInsert"), <<>>, None,
         (IF pkg = None THEN <<>> ELSE <<Leaf("PackageInsertNo", pkg)>>)
         \o << Leaf("CompanyIdentifier", <<"c">>),
               Elem(Q("GenericName"), <<>>, <<"h">>, <<JaDetail(<<"g">>)>>, None),
               Elem(Q("ApprovalEtc"), <<>>, None, brands, None),
               Elem(Q("Interactions"), <<>>, None,
                    <<Elem(Q("ContraIndicatedCombinations"), <<>>, None, <<DrugH>>, None)>>,
                    None) >>,
         None)

ParseFiles ==
    {[path |-> "f1", xml |-> x] :
        x \in {Xml(PackageInsert(p, b)) :
                   p \in {None, <<"P", "1">>}, b \in SeqsUpTo(BrandPalette, MaxBrands)}
              \cup {XmlMalformed, XmlEmpty}}

InitParse ==
    /\ pc = "call"
    /\ op = "parse_xml_to_rows"
    /\ arg \in ParseFiles
    /\ result = <<>>
    /\ tables = StaticTables
    /\ memo = <<>>
    /\ calls = 0

\* rows = parse_xml_to_rows(xml_path)
Call_parse_xml_to_rows ==
    /\ pc = "call"
    /\ op = "parse_xml_to_rows"
    /\ result' = parse_xml_to_rows(arg)
    /\ pc' = IF result' = RaisedRows THEN "raised" ELSE "parse_xml_to_rows"
    /\ calls' = calls + 1
    /\ UNCHANGED <<op, arg, tables, memo>>

\* inserted = upsert_rows(conn, rows), on the table as ensure_table left it
Call_upsert_rows ==
    /\ pc = "parse_xml_to_rows"
    /\ pc' = "upsert_rows"
    /\ result' = [rows |-> result] @@ upsert_rows(<<>>, result)
    /\ calls' = calls + 1
    /\ UNCHANGED <<op, arg, tables, memo>>

NextParse == Call_parse_xml_to_rows \/ Call_upsert_rows

SpecParse == InitParse /\ [][NextParse]_vars

\* The DetailBrandName elements of the document of a file.
BrandsOf(file) ==
    SelectSeq(Flatten([i \in 1..Len(file.xml.root.children) |->
                          IF file.xml.root.children[i].tag = Q("ApprovalEtc")
                          THEN file.xml.root.children[i].children ELSE <<>>]),
              LAMBDA c : c.tag = Q("DetailBrandName"))

\* C25: the rows of a document are one per DetailBrandName, or one row with
\* yj_code "" when there is none; their keys are pairwise distinct, so the
\* count upsert_rows returns is the number of rows the table holds for the
\* document.
C25_DistinctKeys ==
    pc = "upsert_rows" =>
        /\ Len(result.rows) = (IF BrandsOf(arg) = <<>> THEN 1 ELSE Len(BrandsOf(arg)))
        /\ BrandsOf(arg) = <<>> => result.rows[1].yj_code = <<>>
        /\ \A i, j \in 1..Len(result.rows) :
               i # j => KeyOf(result.rows[i]) # KeyOf(result.rows[j])
        /\ result.inserted = Cardinality(DOMAIN result.table)

----------------------------------------------------------------------------
(* 21_sgml2rawdata main: the import loop over the XML files found, with    *)
(* its counters, the progress lines, the failed-files CSV and the summary. *)
(* upsert_rows may raise a database error for any file; the transaction of *)
(* that file is then rolled back.  The list of files is the one            *)
(* iter_xml_files returns after extract_all_zips has run.  The table and   *)
(* the CSV may hold what an earlier run left.                              *)

MaxFiles == 3

FileNames == <<"f1", "f2", "f3", "f4", "f5">>

\* The XML texts the files hold: two brands with codes, no number and no
\* brand, two brands without code, and two texts that ET.parse rejects.
FileTexts ==
    { Xml(PackageInsert(<<"P", "1">>,
              << Brand(Leaf("ApprovalBrandName", <<"n", "2">>), <<"Y", "2">>),
                 Brand(Leaf("ApprovalBrandName", <<"n", "4">>), <<"Y", "1">>) >>)),
      Xml(PackageInsert(None, <<>>)),
      Xml(PackageInsert(<<"P", "2">>,
              << Brand(Leaf("ApprovalBrandName", <<"n", "3">>), None),
                 Brand(Leaf("ApprovalBrandName", <<"n", "5">>), <<SP>>) >>)),
      XmlMalformed,
      XmlEmpty }

FileLists ==
    {[i \in 1..Len(xs) |-> [path |-> FileNames[i], xml |-> xs[i]]] :
        xs \in SeqsUpTo(FileTexts, MaxFiles)}

\* What an earlier run left: a table of one row and a CSV of one line.
OldRow == [package_insert_no |-> <<"P", "0">>, yj_code |-> <<>>]
OldTable == [k \in {KeyOf(OldRow)} |-> OldRow]
OldCsv == <<[file |-> "old", exception |-> "DatabaseError"]>>

InitImport ==
    /\ pc = "main"
    /\ op = "main"
    /\ arg \in FileLists
    /\ \E old \in {[table |-> <<>>, failed_csv |-> <<>>],
                    [table |-> OldTable, failed_csv |-> OldCsv]} :
           result = [done |-> 0, ok_rows_total |-> 0, err_count |-> 0,
                     progress |-> <<>>, failed_csv |-> old.failed_csv,
                     table |-> old.table, summary |-> <<>>]
    /\ tables = StaticTables
    /\ memo = <<>>
    /\ calls = 0

\* DI_folder is no directory (so no file is found): SystemExit(1).
ImportNoFolder ==
    /\ pc = "main"
    /\ Len(arg) = 0
    /\ pc' = "exit"
    /\ UNCHANGED <<op, arg, result, tables, memo, calls>>

\* total == 0: a warning, and main returns before the CSV is opened and
\* before the database is touched.
ImportNothing ==
    /\ pc = "main"
    /\ Len(arg) = 0
    /\ pc' = "returned"
    /\ UNCHANGED <<op, arg, result, tables, memo, calls>>

\* There are files: the failed-files CSV is opened for writing and holds its
\* header line only.
ImportStart ==
    /\ pc = "main"
    /\ Len(arg) > 0
    /\ pc' = "ensure_table"
    /\ result' = [result EXCEPT !.failed_csv = <<>>]
    /\ UNCHANGED <<op, arg, tables, memo, calls>>

\* ensure_table(conn): DROP and CREATE in one committed transaction, so the
\* table is empty; or the statement raises, the transaction is rolled back
\* and main ends with the exception before any file is attempted.
Call_ensure_table ==
    /\ pc = "ensure_table"
    /\ \/ pc' = "import" /\ result' = [result EXCEPT !.table = <<>>]
       \/ pc' = "raised" /\ UNCHANGED result
    /\ UNCHANGED <<op, arg, tables, memo, calls>>

\* The except branch of one turn: the error is counted and written to the
\* CSV, and the loop goes on.
file_failed(r, idx, file, exception) ==
    [r EXCEPT !.err_count  = @ + 1,
              !.failed_csv = Append(@, [file |-> file.path, exception |-> exception]),
              !.progress   = Append(@, [n |-> idx, file |-> file.path, outcome |-> "ERROR"])]

\* The try branch of one turn when nothing raises.
file_done(r, file, rows) ==
    LET up == upsert_rows(r.table, rows)
    IN  [r EXCEPT !.done          = @ + 1,
                  !.ok_rows_total = @ + up.inserted,
                  !.table         = up.table,
                  !.progress      = Append(@, [n |-> r.done + 1, file |-> file.path,
                                               outcome |-> "rows", rows |-> up.inserted])]

\* What one turn can leave, given what parse_xml_to_rows returned for the
\* file: the except branch when it raised, and otherwise the try branch or,
\* when upsert_rows raises, the except branch.
import_file(r, idx, file, rows) ==
    IF rows = RaisedRows
    THEN {file_failed(r, idx, file, "ParseError")}
    ELSE {file_done(r, file, rows), file_failed(r, idx, file, "DatabaseError")}

\* A plausible slip: an exception is counted and leaves the loop.
ImportFile_stopOnError ==
    /\ pc = "import"
    /\ calls < Len(arg)
    /\ result' \in import_file(result, calls + 1, arg[calls + 1],
                               parse_xml_to_rows(arg[calls + 1]))
    /\ pc' = IF result'.err_count > result.err_count THEN "raised" ELSE "import"
    /\ calls' = calls + 1
    /\ UNCHANGED <<op, arg, tables, memo>>

\* One turn of the loop "for idx, xml_path in enumerate(files, start=1)".
ImportFile ==
    /\ pc = "import"
    /\ calls < Len(arg)
    /\ result' \in import_file(result, calls + 1, arg[calls + 1],
                               parse_xml_to_rows(arg[calls + 1]))
    /\ calls' = calls + 1
    /\ UNCHANGED <<pc, op, arg, tables, memo>>

\* After the loop: the summary is logged.
ImportSummary ==
    /\ pc = "import"
    /\ Len(arg) > 0
    /\ calls = Len(arg)
    /\ pc' = "imported"
    /\ result' = [result EXCEPT !.summary =
                      [total_xml     |-> Len(arg),
                       success_files |-> result.done - result.err_count,
                       errors        |-> result.err_count,
                       rows          |-> result.ok_rows_total]]
    /\ UNCHANGED <<op, arg, tables, memo, calls>>

NextImport ==
    \/ ImportNoFolder
    \/ ImportNothing
    \/ ImportStart
    \/ Call_ensure_table
    \/ ImportFile
    \/ ImportSummary

SpecImport == InitImport /\ [][NextImport]_vars

\* The progress lines of the files that raised, and of those that did not.
ErrorLines == SelectSeq(result.progress, LAMBDA e : e.outcome = "ERROR")
RowsLines  == SelectSeq(result.progress, LAMBDA e : e.outcome = "rows")

\* C26: a file that raises is written to the failed-files CSV and no exception
\* leaves the loop: the files are attempted once each in list order, and after
\* the loop done + err_count is the number of files.  main ends with an
\* exception only before the first file.
C26_LoopSurvivesErrors ==
    /\ pc \in {"main", "exit", "returned", "ensure_table", "raised", "import", "imported"}
    /\ pc \in {"main", "exit", "returned", "ensure_table", "raised"} =>
           calls = 0 /\ result.progress = <<>>
    /\ pc \in {"import", "imported"} =>
           /\ Len(result.progress) = calls
           /\ \A i \in 1..calls : result.progress[i].file = arg[i].path
           /\ \A i \in 1..calls :
                  arg[i].xml.kind # "xml" => result.progress[i].outcome = "ERROR"
           /\ Len(result.failed_csv) = Len(ErrorLines)
           /\ \A i \in 1..Len(ErrorLines) : result.failed_csv[i].file = ErrorLines[i].file
           /\ result.done + result.err_count = calls
           /\ pc = "imported" => result.done + result.err_count = Len(arg)

\* Three files: the first cannot be parsed, the second fails in the database,
\* the third is imported.
C26_Witness ==
    /\ pc = "imported"
    /\ Len(arg) = 3
    /\ result.failed_csv = << [file |-> "f1", exception |-> "ParseError"],
                              [file |-> "f2", exception |-> "DatabaseError"] >>
    /\ result.progress[3].outcome = "rows"
    /\ result.done = 1
    /\ result.err_count = 2

\* C27: the summary's "success files" is the number of files imported without
\* an exception and its "errors" is the number of files that raised.
C27_SummaryFigures ==
    pc = "imported" =>
        /\ result.summary.success_files = Len(RowsLines)
        /\ result.summary.errors = Len(ErrorLines)

----------------------------------------------------------------------------
(* 22_build_sgml_interaction main: the rows of sgml_rawdata whose          *)
(* interactions_flat is not NULL are turned into interaction rows, which   *)
(* are inserted in batches.                                                *)

MaxSourceRows == 3

\* BATCH_SIZE of 22_build_sgml_interaction (500 by default), small here.
INTERACTION_BATCH_SIZE == 2

RecordH == InteractionRecord(<<"H">>, <<"H">>, <<None, None>>, HEIYO_CHUI)

\* The values of interactions_flat fetched: record lists of zero to three
\* records, one of them with the same record twice, and a text that is no
\* JSON.
InteractionColumns ==
    { FlatColumn(<<>>),
      FlatColumn(<<RecordGA>>),
      FlatColumn(<<RecordH, RecordH>>),
      FlatColumn(<<RecordGA, RecordH, RecordGA>>),
      JsonString(<<Tok("[")>>) }

\* The result of the query, in the order fetched: row i has the key (i, i).
FetchedRows ==
    {[i \in 1..Len(cs) |-> [package_insert_no |-> i, yj_code |-> i,
                            interactions_flat |-> cs[i]]] :
        cs \in SeqsUpTo(InteractionColumns, MaxSourceRows)}

InitInteraction ==
    /\ pc = "insert"
    /\ op = "main"
    /\ arg \in FetchedRows
    /\ result = [batch |-> <<>>, inserted |-> <<>>, inserted_total |-> 0]
    /\ tables = StaticTables
    /\ memo = <<>>
    /\ calls = 0

\* A plausible slip: the batch is written only when it is above BATCH_SIZE.
InsertRows_flushAbove ==
    /\ pc = "insert"
    /\ calls < Len(arg)
    /\ LET r     == arg[calls + 1]
           batch == result.batch \o build_interaction_rows(r.package_insert_no, r.yj_code,
                                                           r.interactions_flat)
       IN  result' =
               IF Len(batch) > INTERACTION_BATCH_SIZE
               THEN [batch |-> <<>>,
                     inserted       |-> result.inserted \o batch,
                     inserted_total |-> result.inserted_total + Len(batch)]
               ELSE [result EXCEPT !.batch = batch]
    /\ calls' = calls + 1
    /\ UNCHANGED <<pc, op, arg, tables, memo>>

\* One turn of the loop "for idx, r in enumerate(rows, start=1)".
InsertRows ==
    /\ pc = "insert"
    /\ calls < Len(arg)
    /\ LET r     == arg[calls + 1]
           batch == result.batch \o build_interaction_rows(r.package_insert_no, r.yj_code,
                                                           r.interactions_flat)
       IN  result' =
               IF Len(batch) >= INTERACTION_BATCH_SIZE
               THEN [batch |-> <<>>,
                     inserted       |-> result.inserted \o batch,
                     inserted_total |-> result.inserted_total + Len(batch)]
               ELSE [result EXCEPT !.batch = batch]
    /\ calls' = calls + 1
    /\ UNCHANGED <<pc, op, arg, tables, memo>>

\* After the loop: what is left of the batch is inserted.
InsertEnd ==
    /\ pc = "insert"
    /\ calls = Len(arg)
    /\ pc' = "inserted"
    /\ result' = [batch |-> <<>>,
                  inserted       |-> result.inserted \o result.batch,
                  inserted_total |-> result.inserted_total + Len(result.batch)]
    /\ UNCHANGED <<op, arg, tables, memo, calls>>

----------------------------------------------------------------------------
(* The two batch loops, of 22_build_sgml_interaction and of                *)
(* 32_label_women_risk, side by side.                                      *)

InitBatch == InitInteraction \/ InitRisk

NextBatch ==
    \/ InsertRows
    \/ InsertEnd
    \/ LabelRow
    \/ LabelAppendDest
    \/ FlushUpdateSrc
    \/ FlushUpsertDest
    \/ LabelEnd
    \/ LabelEndUpsert
    \/ LabelRaises

SpecBatch == InitBatch /\ [][NextBatch]_vars

\* The interaction rows built from the first n rows fetched.
RowsBuilt(n) ==
    Flatten([i \in 1..n |-> build_interaction_rows(arg[i].package_insert_no, arg[i].yj_code,
                                                   arg[i].interactions_flat)])

\* C28, loop of 22: what was inserted followed by what is pending is what was
\* built so far; the pending batch is below BATCH_SIZE between two turns and
\* empty at the end; inserted_total counts the rows inserted.
InteractionWrittenOnce ==
    /\ result.inserted \o result.batch = RowsBuilt(calls)
    /\ Len(result.batch) < INTERACTION_BATCH_SIZE
    /\ result.inserted_total = Len(result.inserted)
    /\ pc = "inserted" =>
           /\ result.batch = <<>>
           /\ result.inserted = RowsBuilt(Len(arg))
           /\ result.inserted_total = Len(RowsBuilt(Len(arg)))

\* The two pending batches of 32 hold the rows of the same source rows in
\* the same order: the same keys position by position, and the same scores.
BatchesInStep ==
    /\ Len(result.batch_update_src) = Len(result.batch_upsert_dest)
    /\ \A i \in 1..Len(result.batch_update_src) :
           /\ result.batch_update_src[i].package_insert_no =
                  result.batch_upsert_dest[i].package_insert_no
           /\ result.batch_update_src[i].yj_code = result.batch_upsert_dest[i].yj_code
           /\ result.batch_update_src[i].pregnant_score =
                  result.batch_upsert_dest[i].pregnant_score
           /\ result.batch_update_src[i].nursing_score =
                  result.batch_upsert_dest[i].nursing_score

\* The number of rows whose label row was appended: within a turn, between
\* the two appends, one less than the rows scanned.
Labelled == IF pc = "append_dest" THEN calls - 1 ELSE calls

\* Loop of 32.  For each table, what was written followed by what is pending
\* is what the rows scanned so far gave, nothing twice and in order, and the
\* counter counts what was written.  At the head of every turn the two
\* pending batches are in step and below BATCH_SIZE, and as many rows are
\* written to one table as to the other.  Within a turn the second batch is
\* behind by the row being appended, then both are full and in step, then the
\* first is written and cleared before the second.  After the scan both are
\* empty and both counters are the number of rows scanned.
RiskWrittenOnce ==
    /\ LET out == [i \in 1..calls |-> label_row(arg[i])]
       IN  /\ result.updated \o result.batch_update_src =
                  [i \in 1..calls |-> out[i].update_src]
           /\ result.upserted \o result.batch_upsert_dest =
                  [i \in 1..Labelled |-> out[i].upsert_dest]
    /\ result.updated_src = Len(result.updated)
    /\ result.upserted_dest = Len(result.upserted)
    /\ pc = "label" =>
           /\ BatchesInStep
           /\ Len(result.batch_update_src) < LABEL_BATCH_SIZE
           /\ result.updated_src = result.upserted_dest
           /\ result.updated_src % LABEL_BATCH_SIZE = 0
    /\ pc = "append_dest" =>
           /\ Len(result.batch_update_src) = Len(result.batch_upsert_dest) + 1
           /\ Len(result.batch_update_src) <= LABEL_BATCH_SIZE
           /\ result.updated_src = result.upserted_dest
    /\ pc = "update_src" =>
           /\ BatchesInStep
           /\ Len(result.batch_update_src) = LABEL_BATCH_SIZE
           /\ result.updated_src = result.upserted_dest
    /\ pc = "upsert_dest" =>
           /\ result.batch_update_src = <<>>
           /\ Len(result.batch_upsert_dest) = LABEL_BATCH_SIZE
           /\ result.updated_src = result.upserted_dest + LABEL_BATCH_SIZE
    /\ pc = "upsert_rest" =>
           /\ result.batch_update_src = <<>>
           /\ Len(result.batch_upsert_dest) < LABEL_BATCH_SIZE
           /\ result.updated_src = Len(arg)
    /\ pc = "labelled" =>
           /\ result.batch_update_src = <<>>
           /\ result.batch_upsert_dest = <<>>
           /\ result.updated_src = Len(arg)
           /\ result.upserted_dest = Len(arg)

\* C28: in both batch loops every row produced during the scan is written
\* exactly once, in the order produced; a pending batch is written and cleared
\* when it reaches BATCH_SIZE and the rest is written after the scan; from one
\* turn of the loop of 32 to the next its two pending batches hold the same
\* rows in the same order; on completion the counters are the numbers of rows
\* produced.
C28_WrittenOnce ==
    /\ pc \in {"insert", "inserted"} \cup LabelStates
    /\ pc \in {"insert", "inserted"} => InteractionWrittenOnce
    /\ pc \in LabelStates => RiskWrittenOnce

\* 32 at its end on a table of five rows: two full batches were written
\* within turns two and four and a rest of one row after the scan, each row
\* once to each table and in key order.
C28_Witness ==
    /\ pc = "labelled"
    /\ Len(arg) = 5
    /\ calls = 5
    /\ result.updated_src = 5
    /\ result.upserted_dest = 5
    /\ [i \in 1..5 |-> result.updated[i].package_insert_no] = <<1, 2, 3, 4, 5>>
    /\ [i \in 1..5 |-> result.upserted[i].package_insert_no] = <<1, 2, 3, 4, 5>>
    /\ result.batch_update_src = <<>>
    /\ result.batch_upsert_dest = <<>>
====
